---- MODULE Spec2Model ----
(***************************************************************************)
(* Model of the Aurora agent core: Engine.run (src/core/engine.py), the    *)
(* role nodes and the tool dispatcher (src/core/nodes.py), the router      *)
(* decision and system-prompt injection (src/core/utils.py) and the graph  *)
(* wiring (src/core/edges.py).                                             *)
(*                                                                         *)
(* The graph is a LangGraph StateGraph over MessagesState.  Three library  *)
(* behaviours the code relies on are part of the model:                    *)
(*  - the "messages" channel is reduced by add_messages: a returned        *)
(*    message whose id is already in the channel replaces that entry in    *)
(*    place, any other message gets a fresh id and is appended;            *)
(*  - invoke() runs at most recursion_limit node executions and raises     *)
(*    GraphRecursionError when the graph has not reached END by then;      *)
(*  - the executor node is an async function run through the synchronous   *)
(*    invoke(): whether the scheduler runs it or rejects it with a         *)
(*    TypeError depends on the installed library, so both outcomes are     *)
(*    possible each time the executor is entered.                          *)
(***************************************************************************)
EXTENDS Integers, Sequences, FiniteSets, TLC

(* ------------------------------ bounds -------------------------------- *)
\* longest tool-call batch one AI message carries
MaxCalls == 2
\* largest finite number of tool rounds the model asks for before replying
MaxRounds == 1
\* number of continue resolutions explored in one run
MaxContinues == 1
\* longest message list a function is called with on its own
MaxMessages == 3
\* number of get_tracer calls explored in one process
MaxTracerCalls == 2
\* number of records written to the trace file
MaxRecords == 2
\* items of a list or dict a tool returns
MaxItems == 2

(* ------------------------- program constants -------------------------- *)
DefaultLimit == 25
increment == 25

\* Python's None, kept apart from every str value (a str is a sequence of characters)
None == <<"<None>">>
END == "END"

(* ------------------------------ messages ------------------------------ *)
\* id 0 stands for "no id yet" (BaseMessage.id is None)
Msg(type, content, calls, tcid) ==
    [type |-> type, id |-> 0, content |-> content, tool_calls |-> calls, tool_call_id |-> tcid]

SystemMessage(content) == Msg("system", content, <<>>, 0)
HumanMessage(content) == Msg("human", content, <<>>, 0)
AIMessage(content, calls) == Msg("ai", content, calls, 0)
ToolMessage(content, tcid) == Msg("tool", content, <<>>, tcid)

Text(t) == [fmt |-> "text", text |-> t]
Json(o) == [fmt |-> "json", obj |-> o]

(* --------------------------- text helpers ----------------------------- *)
\* str values the code parses are sequences of one-character strings
Upper == <<"A","B","C","D","E","F","G","H","I","J","K","L","M","N","O","P","Q","R","S","T","U","V","W","X","Y","Z">>
LowerCase == <<"a","b","c","d","e","f","g","h","i","j","k","l","m","n","o","p","q","r","s","t","u","v","w","x","y","z">>

LowerChar(c) ==
    IF \E i \in DOMAIN Upper : Upper[i] = c
    THEN LowerCase[CHOOSE i \in DOMAIN Upper : Upper[i] = c]
    ELSE c

\* str.lower()
Lower(s) == [i \in DOMAIN s |-> LowerChar(s[i])]

IsSpace(c) == c \in {" ", "\t", "\n"}

\* str.strip()
Strip(s) ==
    LET keep == {i \in DOMAIN s : ~IsSpace(s[i])}
    IN  IF keep = {} THEN <<>>
        ELSE LET lo == CHOOSE i \in keep : \A j \in keep : i <= j
                 hi == CHOOSE i \in keep : \A j \in keep : j <= i
             IN  SubSeq(s, lo, hi)

\* str(val) for a config value: str(None) is the text "None"
Str(val) == IF val = None THEN <<"N","o","n","e">> ELSE val

(* --------------------------- configuration ---------------------------- *)
\* core.config prompt values (environment); unset values are None
SYSTEM_PROMPT == None
ROUTER_SYSTEM_PROMPT == <<"router-prompt">>
PLANNER_SYSTEM_PROMPT == None
EXECUTOR_SYSTEM_PROMPT == <<"executor-prompt">>
CRITIC_SYSTEM_PROMPT == <<"critic-prompt">>

\* values the ROUTER_FORCE_* settings take; <<>> is the getattr default ""
FlagValues == {<<>>, None, <<" ","Y","e","s"," ">>, <<"0">>}

(* ----------------------------- utils.py ------------------------------- *)
\* Python's `a or b` on Optional[str]
PyOr(a, b) == IF a = None \/ a = <<>> THEN b ELSE a

\* mutant: a system message anywhere in the list counts
ensure_system_SystemAnywhere(messages, override_prompt) ==
    LET prompt == PyOr(PyOr(override_prompt, SYSTEM_PROMPT), <<"You are Aurora Agent.">>)
    IN  IF \E i \in DOMAIN messages : messages[i].type = "system"
        THEN messages
        ELSE <<SystemMessage(Text(prompt))>> \o messages

ensure_system(messages, override_prompt) ==
    LET prompt == PyOr(PyOr(override_prompt, SYSTEM_PROMPT), <<"You are Aurora Agent.">>)
    IN  IF Len(messages) > 0 /\ messages[1].type = "system"
        THEN messages
        ELSE <<SystemMessage(Text(prompt))>> \o messages

\* mutant: tool calls of any AI message of the list count, not of the last
has_tool_calls_AnyMessage(msgs) ==
    \E i \in DOMAIN msgs : msgs[i].type = "ai" /\ Len(msgs[i].tool_calls) > 0

has_tool_calls(msgs) ==
    IF Len(msgs) = 0 THEN FALSE
    ELSE LET last == msgs[Len(msgs)]
         IN  last.type = "ai" /\ Len(last.tool_calls) > 0

_truthy(val) ==
    Lower(Strip(Str(val))) \in {<<"1">>, <<"t","r","u","e">>, <<"y","e","s">>, <<"y">>}

\* mutant: the critic flag is tested before the planner flag
router_decision_CriticFirst(msgs, force_planner, force_critic) ==
    IF has_tool_calls(msgs) THEN "executor"
    ELSE IF _truthy(force_critic) THEN "critic"
    ELSE IF _truthy(force_planner) THEN "planner"
    ELSE END

router_decision(msgs, force_planner, force_critic) ==
    IF has_tool_calls(msgs) THEN "executor"
    ELSE IF _truthy(force_planner) THEN "planner"
    ELSE IF _truthy(force_critic) THEN "critic"
    ELSE END

(* ------------------- MessagesState: add_messages ---------------------- *)
\* number of messages of s[1..i] that have no id yet
Unset(s, i) == Cardinality({j \in 1..i : s[j].id = 0})

\* every message without an id gets a fresh one, n being the next free id
AssignIds(s, n) ==
    [i \in DOMAIN s |-> IF s[i].id = 0 THEN [s[i] EXCEPT !.id = n + Unset(s, i) - 1] ELSE s[i]]

RECURSIVE Merge(_, _)
Merge(merged, right) ==
    IF right = <<>> THEN merged
    ELSE LET m == Head(right)
             hit == {i \in DOMAIN merged : merged[i].id = m.id}
         IN  IF hit # {}
             THEN Merge([merged EXCEPT ![CHOOSE i \in hit : TRUE] = m], Tail(right))
             ELSE Merge(Append(merged, m), Tail(right))

\* the reducer of the "messages" channel; n is the next free id
add_messages(left, right, n) ==
    LET l == AssignIds(left, n)
        r == AssignIds(right, n + Unset(left, Len(left)))
    IN  Merge(l, r)

IdsAfter(left, right, n) == n + Unset(left, Len(left)) + Unset(right, Len(right))

(* ------------------------ capability registry ------------------------- *)
\* Engine(tools=...): each tool has the two attributes the dispatcher reads
\* (coroutine, and whether ainvoke is a coroutine function) and what its
\* invocation does: return a str, return a dict, return an object json.dumps
\* cannot serialize (a cyclic structure), or raise.
Tools ==
    [sync_ok   |-> [coroutine |-> FALSE, ainvoke_async |-> FALSE, does |-> "dict"],
     sync_err  |-> [coroutine |-> FALSE, ainvoke_async |-> FALSE, does |-> "raise"],
     async_ok  |-> [coroutine |-> FALSE, ainvoke_async |-> TRUE,  does |-> "str"],
     async_err |-> [coroutine |-> TRUE,  ainvoke_async |-> TRUE,  does |-> "raise"],
     async_cyc |-> [coroutine |-> TRUE,  ainvoke_async |-> TRUE,  does |-> "cyclic"]]

\* names a model can put in a tool call: the registered ones and one that is not
ToolNames == DOMAIN Tools \cup {"missing"}

\* tools_map = {t.name: t for t in tools}
tools_map == Tools

\* what tool.invoke(args) / await tool.ainvoke(args) produces
Invoke(tool) ==
    CASE tool.does = "str"   -> [py |-> "str", v |-> <<"X">>]
      [] tool.does = "dict"  -> [py |-> "dict", v |-> [success |-> TRUE, data |-> <<"X">>]]
      [] tool.does = "raise" -> [py |-> "Exception", v |-> <<"boom">>]
      [] tool.does = "cyclic" -> [py |-> "cyclic", v |-> <<"self-referencing dict">>]

(* ------------------------------ nodes.py ------------------------------ *)
Failure(err) == [py |-> "dict", v |-> [success |-> FALSE, error |-> err]]

_serialize_output(output) ==
    IF output.py = "str" THEN Text(output.v)
    ELSE IF output.py = "cyclic"
    THEN Json([success |-> FALSE, error |-> <<"Circular reference detected">>])
    ELSE Json(output.v)

(* ---------------------- json text of tool outputs --------------------- *)
\* Python values a tool returns, tagged by type.  A text is a sequence of
\* characters; "<e9>" stands for one non-ASCII character, "\n" for a newline.
PyNone == [t |-> "none", v |-> <<>>]
PyBool(b) == [t |-> "bool", v |-> <<b>>]
PyInt(n) == [t |-> "int", v |-> <<n>>]
PyStr(chars) == [t |-> "str", v |-> chars]
PyList(items) == [t |-> "list", v |-> items]
PyTuple(items) == [t |-> "tuple", v |-> items]
\* a dict: its items in insertion order, each <<key, value>>
PyDict(pairs) == [t |-> "dict", v |-> pairs]
\* an object json cannot encode, with the text str() gives for it
PyObject(chars) == [t |-> "object", v |-> chars]
\* a container that holds itself
PyCyclic == [t |-> "cyclic", v |-> <<>>]

Digits == <<"0","1","2","3","4","5","6","7","8","9">>

RECURSIVE NatChars(_)
NatChars(n) ==
    IF n < 10 THEN <<Digits[n + 1]>>
    ELSE NatChars(n \div 10) \o <<Digits[(n % 10) + 1]>>

IntChars(n) == IF n < 0 THEN <<"-">> \o NatChars(0 - n) ELSE NatChars(n)

EscapeChar_BackslashRaw(c) ==
    CASE c = "\"" -> <<"\\", "\"">>
      [] c = "\n" -> <<"\\", "n">>
      [] c = "<e9>" -> <<"\\", "u", "0", "0", "e", "9">>
      [] OTHER -> <<c>>

\* json's escapes (ensure_ascii is on in json.dumps by default)
EscapeChar(c) ==
    CASE c = "\"" -> <<"\\", "\"">>
      [] c = "\\" -> <<"\\", "\\">>
      [] c = "\n" -> <<"\\", "n">>
      [] c = "<e9>" -> <<"\\", "u", "0", "0", "e", "9">>
      [] OTHER -> <<c>>

RECURSIVE Escaped(_)
Escaped(chars) ==
    IF chars = <<>> THEN <<>> ELSE EscapeChar(Head(chars)) \o Escaped(Tail(chars))

Quoted(chars) == <<"\"">> \o Escaped(chars) \o <<"\"">>

RECURSIVE Join(_)
\* the texts of a list joined by ", "
Join(texts) ==
    IF texts = <<>> THEN <<>>
    ELSE IF Len(texts) = 1 THEN texts[1]
    ELSE texts[1] \o <<",", " ">> \o Join(Tail(texts))

RECURSIVE HasCycle(_)
\* json.dumps raises ValueError("Circular reference detected") on it
HasCycle(p) ==
    \/ p.t = "cyclic"
    \/ p.t \in {"list", "tuple"} /\ \E i \in DOMAIN p.v : HasCycle(p.v[i])
    \/ p.t = "dict" /\ \E i \in DOMAIN p.v : HasCycle(p.v[i][2])

\* the text json.dumps makes of a dict key: str keys as they are, int, bool
\* and None keys turned into text
KeyChars(k) ==
    CASE k.t = "str" -> k.v
      [] k.t = "int" -> IntChars(k.v[1])
      [] k.t = "bool" -> IF k.v[1] THEN <<"t","r","u","e">> ELSE <<"f","a","l","s","e">>
      [] k.t = "none" -> <<"n","u","l","l">>

RECURSIVE json_dumps(_)
\* json.dumps(p, default=str) for a p without a cycle
json_dumps(p) ==
    CASE p.t = "none" -> <<"n","u","l","l">>
      [] p.t = "bool" -> IF p.v[1] THEN <<"t","r","u","e">> ELSE <<"f","a","l","s","e">>
      [] p.t = "int" -> IntChars(p.v[1])
      [] p.t = "str" -> Quoted(p.v)
      [] p.t = "object" -> Quoted(p.v)
      [] p.t \in {"list", "tuple"} ->
             <<"[">> \o Join([i \in DOMAIN p.v |-> json_dumps(p.v[i])]) \o <<"]">>
      [] p.t = "dict" ->
             <<"{">> \o Join([i \in DOMAIN p.v |->
                                 Quoted(KeyChars(p.v[i][1])) \o <<":", " ">>
                                     \o json_dumps(p.v[i][2])]) \o <<"}">>

\* _serialize_output on a tagged value, down to the characters
serialize_output_chars(output) ==
    IF output.t = "str" THEN output.v
    ELSE IF HasCycle(output)
    THEN json_dumps(PyDict(<< <<PyStr(<<"success">>), PyBool(FALSE)>>,
                              <<PyStr(<<"error">>),
                                PyStr(<<"Circular reference detected">>)>> >>))
    ELSE json_dumps(output)

\* json.loads, reading the text json.dumps writes (its only whitespace is the
\* one space after "," and ":").  A parse gives ok, the value and the text
\* left over; ok is FALSE where json.loads raises JSONDecodeError.
Bad == [ok |-> FALSE, val |-> PyNone, rest |-> <<>>]

Parsed(val, rest) == [ok |-> TRUE, val |-> val, rest |-> rest]

From(s, i) == SubSeq(s, i, Len(s))

StartsWith(s, word) == Len(s) >= Len(word) /\ SubSeq(s, 1, Len(word)) = word

IsDigit(c) == \E i \in DOMAIN Digits : Digits[i] = c

DigitVal(c) == (CHOOSE i \in DOMAIN Digits : Digits[i] = c) - 1

RECURSIVE ParseString(_, _)
\* s follows the opening quote
ParseString(s, acc) ==
    IF s = <<>> THEN Bad
    ELSE IF s[1] = "\"" THEN Parsed(PyStr(acc), Tail(s))
    ELSE IF s[1] = "\\"
    THEN IF Len(s) < 2 THEN Bad
         ELSE IF s[2] = "\"" THEN ParseString(From(s, 3), Append(acc, "\""))
         ELSE IF s[2] = "\\" THEN ParseString(From(s, 3), Append(acc, "\\"))
         ELSE IF s[2] = "n" THEN ParseString(From(s, 3), Append(acc, "\n"))
         ELSE IF StartsWith(From(s, 2), <<"u", "0", "0", "e", "9">>)
         THEN ParseString(From(s, 7), Append(acc, "<e9>"))
         ELSE Bad
    ELSE ParseString(Tail(s), Append(acc, s[1]))

RECURSIVE ParseNat(_, _)
ParseNat(s, n) ==
    IF s # <<>> /\ IsDigit(s[1]) THEN ParseNat(Tail(s), 10 * n + DigitVal(s[1]))
    ELSE Parsed(PyInt(n), s)

\* a later pair with a key the dict already has replaces that key's value
DictSet(pairs, k, v) ==
    IF \E i \in DOMAIN pairs : pairs[i][1] = k
    THEN [i \in DOMAIN pairs |-> IF pairs[i][1] = k THEN <<k, v>> ELSE pairs[i]]
    ELSE Append(pairs, <<k, v>>)

RECURSIVE ParseValue(_), ParseItems(_, _), ParsePairs(_, _)
ParseValue(s) ==
    IF s = <<>> THEN Bad
    ELSE IF s[1] = "\"" THEN ParseString(Tail(s), <<>>)
    ELSE IF s[1] = "[" THEN IF StartsWith(s, <<"[", "]">>)
                            THEN Parsed(PyList(<<>>), From(s, 3))
                            ELSE ParseItems(Tail(s), <<>>)
    ELSE IF s[1] = "{" THEN IF StartsWith(s, <<"{", "}">>)
                            THEN Parsed(PyDict(<<>>), From(s, 3))
                            ELSE ParsePairs(Tail(s), <<>>)
    ELSE IF s[1] = "-" THEN IF Len(s) >= 2 /\ IsDigit(s[2])
                            THEN LET r == ParseNat(Tail(s), 0)
                                 IN  Parsed(PyInt(0 - r.val.v[1]), r.rest)
                            ELSE Bad
    ELSE IF IsDigit(s[1]) THEN ParseNat(s, 0)
    ELSE IF StartsWith(s, <<"n","u","l","l">>) THEN Parsed(PyNone, From(s, 5))
    ELSE IF StartsWith(s, <<"t","r","u","e">>) THEN Parsed(PyBool(TRUE), From(s, 5))
    ELSE IF StartsWith(s, <<"f","a","l","s","e">>) THEN Parsed(PyBool(FALSE), From(s, 6))
    ELSE Bad

ParseItems(s, acc) ==
    LET r == ParseValue(s)
    IN  IF ~r.ok \/ r.rest = <<>> THEN Bad
        ELSE IF r.rest[1] = "]" THEN Parsed(PyList(Append(acc, r.val)), Tail(r.rest))
        ELSE IF StartsWith(r.rest, <<",", " ">>)
        THEN ParseItems(From(r.rest, 3), Append(acc, r.val))
        ELSE Bad

ParsePairs(s, acc) ==
    IF s = <<>> \/ s[1] # "\"" THEN Bad
    ELSE LET k == ParseString(Tail(s), <<>>)
         IN  IF ~k.ok \/ ~StartsWith(k.rest, <<":", " ">>) THEN Bad
             ELSE LET r == ParseValue(From(k.rest, 3))
                      d == DictSet(acc, k.val, r.val)
                  IN  IF ~r.ok \/ r.rest = <<>> THEN Bad
                      ELSE IF r.rest[1] = "}" THEN Parsed(PyDict(d), Tail(r.rest))
                      ELSE IF StartsWith(r.rest, <<",", " ">>)
                      THEN ParsePairs(From(r.rest, 3), d)
                      ELSE Bad

\* json.loads(text): the value, or ok = FALSE where it raises
json_loads(chars) ==
    LET r == ParseValue(chars)
    IN  IF r.ok /\ r.rest = <<>> THEN [ok |-> TRUE, val |-> r.val]
        ELSE [ok |-> FALSE, val |-> PyNone]

\* the tool is awaited through asyncio.gather rather than invoked inline
IsAsyncTool(tool) == tool.coroutine \/ tool.ainvoke_async

\* mutant: the message for an unknown tool carries no call id
NotFound_NoCallId(call) == ToolMessage(Text(<<"Tool '", call.name, "' not found.">>), 0)

NotFound(call) == ToolMessage(Text(<<"Tool '", call.name, "' not found.">>), call.id)

\* the message a synchronous invocation yields (try/except of the loop body)
SyncResult(call) ==
    LET output == Invoke(tools_map[call.name])
        payload == IF output.py = "Exception" THEN Failure(output.v) ELSE output
    IN  ToolMessage(_serialize_output(payload), call.id)

\* the message built from one output of asyncio.gather(return_exceptions=True)
AsyncResult(call, output) ==
    LET payload == IF output.py = "Exception" THEN Failure(output.v) ELSE output
    IN  ToolMessage(_serialize_output(payload), call.id)

(* ------------------------------- inputs -------------------------------- *)
RECURSIVE SeqsUpTo(_, _)
SeqsUpTo(S, n) ==
    IF n = 0 THEN {<<>>}
    ELSE LET shorter == SeqsUpTo(S, n - 1)
         IN  shorter \cup {Append(q, x) : q \in shorter, x \in S}

\* the tool-call batches (tool names, in call order) a model emits
Batches == SeqsUpTo(ToolNames, MaxCalls) \ {<<>>}
SingleCallBatches == {<<n>> : n \in ToolNames}
FlagBatches == {<<"sync_ok">>, <<"async_err">>}

\* histories a caller passes to run(): none, a chat restored by the web front
\* end (no system message), and one that opens with a system message
Histories ==
    { <<>>,
      <<HumanMessage(Text(<<"hi">>)), AIMessage(Text(<<"hello">>), <<>>)>>,
      <<SystemMessage(Text(<<"caller-prompt">>)), HumanMessage(Text(<<"hi">>)),
        AIMessage(Text(<<"hello">>), <<>>)>> }

\* what the operator types at the recursion prompt; EOF and INT stand for
\* EOFError and KeyboardInterrupt raised by input()
EOF == <<"<EOF>">>
INT == <<"<KeyboardInterrupt>">>
PromptInputs ==
    { <<>>, <<"y">>, <<" ","Y","E","S">>, <<"n">>, <<"/","p","a","u","s","e">>,
      <<"P","a","u","s","e"," ">>, <<"/","s","t","o","p">>, <<"h","u","h">>,
      <<"c","o","n","t","i","n","u","e">>, EOF, INT }

(* ------------------------------- state --------------------------------- *)
VARIABLES
    history,         \* run(): the history argument as the caller passed it
    caller_history,  \* the caller's list object and the messages it holds now
    force_planner,   \* config.ROUTER_FORCE_PLANNER
    force_critic,    \* config.ROUTER_FORCE_CRITIC
    batch,           \* the tool names the model asks for in one AI message
    rounds,          \* how many times in a row the model asks for them (-1: always)
    pc,              \* position in run(): idle, loop, graph, prompt, returned, raised
    messages,        \* run(): the seed conversation
    current_limit,   \* run(): the recursion cap
    attempt,         \* run(): number of scheduler invocations
    action,          \* run(): the last operator resolution
    result,          \* what run() returned
    error,           \* what run() raised
    typed,           \* _prompt_on_recursion: what input() gave last at this breach
    state,           \* the graph's "messages" channel
    node,            \* the node the scheduler runs next
    step,            \* node executions of the current scheduler invocation
    asked,           \* tool-call batches the model emitted in this invocation
    ran,             \* the node the scheduler ran last in this invocation
    before,          \* length of the channel when that node was entered
    nextId,          \* next unused message / call id
    xpc,             \* position in the executor: idle, dispatch, gather, return
    xmessages,       \* executor_node: messages
    calls,           \* _execute_tool_calls: ai_msg.tool_calls
    xi,              \* _execute_tool_calls: index of the call the loop is at
    results,         \* _execute_tool_calls: results
    async_calls,     \* _execute_tool_calls: async_calls
    outputs,         \* outputs of the gathered tasks, Pending while a task runs
    xlog,            \* tool invocation events of the current executor invocation
    llm_calls,       \* model-completion calls made in this run
    tool_invocations,\* tool invocations made in this run
    node_execs,      \* node executions in this run
    fn,              \* the function called on its own: its name
    arg,             \* that call's arguments
    ret,             \* what the call returned
    applied,         \* how many times the function has been applied
    _SINGLETON,      \* tracing._SINGLETON
    handlers,        \* logging.getLogger("aurora.tracer").handlers: their files
    files,           \* the content of each log file
    unwritable,      \* the paths open() fails on
    env_trace,       \* os.getenv("TRACE_LOG_FILE")
    instances,       \* EventTracer objects constructed so far
    requested,       \* the logfile argument of each get_tracer call
    got,             \* what each get_tracer call returned
    trace_raised,    \* the exception the last tracer call let escape
    runs,            \* two run() calls on one engine: the locals of each
    written,         \* records the two calls have written through the tracer
    _providers,      \* AllEmails._providers: the accounts by name, in insertion order
    accounts_file,   \* the content of email_accounts.json
    writes_ok,       \* no write of the accounts file has failed so far
    email_op,        \* the operation on the email manager that ran last
    email_ret,       \* what the email tool called last gave back
    email_args,      \* the arguments of the email tool call under study
    existing,        \* /chat: the stored chat the request names, if there is one
    web_pc,          \* /chat: none, running (in engine.run), responded, failed
    response,        \* /chat: the ChatResponse sent to the client
    chat_record      \* /chat: the chat record written by _save_chat

settings == <<force_planner, force_critic, batch, rounds>>
inputs == <<history, caller_history, settings>>
runvars == <<pc, messages, current_limit, attempt, action, result, error>>
graphvars == <<state, node, step, asked, ran, before, nextId>>
execvars == <<xpc, xmessages, calls, xi, results, async_calls, outputs, xlog>>
counters == <<llm_calls, tool_invocations, node_execs>>
purevars == <<fn, arg, ret, applied>>
\* what no step of run() reads or writes
tracervars == <<_SINGLETON, handlers, files, unwritable, env_trace, instances,
                requested, got, trace_raised>>
tworunvars == <<runs, written>>
emailvars == <<_providers, accounts_file, writes_ok, email_op, email_ret, email_args>>
webvars == <<existing, web_pc, response, chat_record>>
apart == <<purevars, tracervars, tworunvars, emailvars, webvars>>
vars == <<inputs, runvars, typed, graphvars, execvars, counters, apart>>

Forever == -1

\* no function is being called on its own
NoPureCall == fn = "none" /\ arg = <<>> /\ ret = <<>> /\ applied = 0

\* trace files: the default, one the caller names, one in a missing directory
DefaultTraceFile == <<"aurora_trace.log">>
TracePaths == {DefaultTraceFile, <<"a.log">>, <<"/nodir/b.log">>}
NoTracer == [id |-> 0, logfile |-> None]
\* stands in `got` for a call that raised instead of returning
Raised == [id |-> -1, logfile |-> None]

\* Engine.__init__ has obtained the tracer on the default file
TracerOfEngine ==
    /\ _SINGLETON = [id |-> 1, logfile |-> DefaultTraceFile]
    /\ handlers = <<DefaultTraceFile>>
    /\ files = [p \in TracePaths |-> <<>>]
    /\ unwritable = {} /\ env_trace = None /\ instances = 1
    /\ requested = <<DefaultTraceFile>>
    /\ got = <<[id |-> 1, logfile |-> DefaultTraceFile]>>
    /\ trace_raised = "none"

\* no second run() call is under way
NoTwoRuns == runs = <<>> /\ written = 0

\* the email tools are not loaded
NoEmail ==
    /\ _providers = <<>> /\ accounts_file = [ok |-> TRUE, entries |-> <<>>]
    /\ writes_ok = TRUE /\ email_op = "none"
    /\ email_ret = [raised |-> "none", success |-> FALSE, keys |-> {},
                    error |-> [prefix |-> "", exc |-> ""]]
    /\ email_args = [tool |-> "none"]

\* no /chat request is being served
NoResponse == [response |-> <<>>, history_delta |-> <<>>, chat_id |-> ""]
NoRecord == [id |-> "", title |-> <<>>, messages |-> <<>>]

NoChat ==
    /\ existing = [found |-> FALSE, title |-> <<>>, messages |-> <<>>]
    /\ web_pc = "none"
    /\ response = NoResponse
    /\ chat_record = NoRecord

NothingApart == NoPureCall /\ TracerOfEngine /\ NoTwoRuns /\ NoEmail /\ NoChat

\* an engine on which run() has not been called
NoRunYet ==
    /\ pc = "idle"
    /\ messages = <<>> /\ current_limit = 0 /\ attempt = 0
    /\ action = "none" /\ result = <<>> /\ error = "none" /\ typed = None
    /\ state = <<>> /\ node = "router" /\ step = 0 /\ asked = 0 /\ nextId = 1
    /\ ran = "none" /\ before = 0
    /\ xpc = "idle" /\ xmessages = <<>> /\ calls = <<>> /\ xi = 0
    /\ results = <<>> /\ async_calls = <<>> /\ outputs = <<>> /\ xlog = <<>>
    /\ llm_calls = 0 /\ tool_invocations = 0 /\ node_execs = 0

\* The force flags are read only when the last AI message has no tool call,
\* and an endless tool loop repeats one batch: each family varies one of
\* flags, batch and loop, the others at small values.
Init ==
    /\ history \in Histories /\ caller_history = history
    /\ \/ /\ force_planner \in FlagValues /\ force_critic \in FlagValues
          /\ batch \in FlagBatches /\ rounds \in 0..MaxRounds
       \/ /\ force_planner = <<>> /\ force_critic = <<>>
          /\ batch \in Batches /\ rounds \in 1..MaxRounds
       \/ /\ force_planner = <<>> /\ force_critic = <<>>
          /\ batch \in SingleCallBatches /\ rounds = Forever
    /\ NoRunYet
    /\ NothingApart

(* ------------------------- model completion --------------------------- *)
\* the AI message llm.invoke returns to the router: the batch while the model
\* still asks for tools, a plain reply afterwards; n is the next free call id
RouterReply(n) ==
    IF rounds = Forever \/ asked < rounds
    THEN AIMessage(Text(<<"calling tools">>),
                   [i \in 1..Len(batch) |-> [name |-> batch[i], id |-> n + i - 1]])
    ELSE AIMessage(Text(<<"reply">>), <<>>)

PlainReply == AIMessage(Text(<<"reply">>), <<>>)

(* ----------------------------- engine.py ------------------------------ *)
\* run(): the seed conversation and the default cap
\* mutant: the seed conversation is the caller's list, the human message is
\* appended to it
RunStart_SeedIsHistory ==
    /\ pc = "idle"
    /\ messages' = caller_history \o <<HumanMessage(Text(<<"user input">>))>>
    /\ caller_history' = messages'
    /\ current_limit' = DefaultLimit
    /\ attempt' = 0
    /\ pc' = "loop"
    /\ UNCHANGED <<apart, typed, history, settings, action, result, error, graphvars, execvars,
                   counters>>

\* list(history or []) is a new list that holds the caller's message objects
RunStart ==
    /\ pc = "idle"
    /\ messages' = caller_history \o <<HumanMessage(Text(<<"user input">>))>>
    /\ caller_history' = caller_history
    /\ current_limit' = DefaultLimit
    /\ attempt' = 0
    /\ pc' = "loop"
    /\ UNCHANGED <<apart, typed, history, settings, action, result, error, graphvars, execvars,
                   counters>>

\* mutant: the scheduler's step counter is carried over into the retry
InvokeGraph_KeepStep ==
    /\ pc = "loop"
    /\ attempt' = attempt + 1
    /\ messages' = AssignIds(messages, nextId)
    /\ state' = add_messages(<<>>, messages, nextId)
    /\ nextId' = IdsAfter(<<>>, messages, nextId)
    /\ node' = "router"
    /\ step' = step
    /\ asked' = 0
    /\ ran' = "none"
    /\ before' = 0
    /\ pc' = "graph"
    /\ typed' = None
    /\ caller_history' = SubSeq(messages', 1, Len(caller_history))
    /\ UNCHANGED <<apart, history, settings, current_limit, action, result, error, execvars,
                   counters>>

\* mutant: a retry resumes from the conversation reached at the breach
InvokeGraph_Resume ==
    /\ pc = "loop"
    /\ attempt' = attempt + 1
    /\ messages' = AssignIds(messages, nextId)
    /\ state' = IF attempt = 0 THEN add_messages(<<>>, messages, nextId) ELSE state
    /\ nextId' = IdsAfter(<<>>, messages, nextId)
    /\ node' = "router"
    /\ step' = 0
    /\ asked' = 0
    /\ ran' = "none"
    /\ before' = 0
    /\ pc' = "graph"
    /\ typed' = None
    /\ caller_history' = SubSeq(messages', 1, Len(caller_history))
    /\ UNCHANGED <<apart, history, settings, current_limit, action, result, error, execvars,
                   counters>>

\* run(): attempt += 1; self.app.invoke({"messages": messages}).  The input
\* goes through the channel's reducer, which sets the missing ids on the
\* message objects the seed list holds, the caller's among them.
InvokeGraph ==
    /\ pc = "loop"
    /\ attempt' = attempt + 1
    /\ messages' = AssignIds(messages, nextId)
    /\ state' = add_messages(<<>>, messages, nextId)
    /\ nextId' = IdsAfter(<<>>, messages, nextId)
    /\ node' = "router"
    /\ step' = 0
    /\ asked' = 0
    /\ ran' = "none"
    /\ before' = 0
    /\ pc' = "graph"
    /\ typed' = None
    /\ caller_history' = SubSeq(messages', 1, Len(caller_history))
    /\ UNCHANGED <<apart, history, settings, current_limit, action, result, error, execvars,
                   counters>>

\* mutant: the scheduler runs one node more than the cap allows
CanStep_OneMore == pc = "graph" /\ node # END /\ step <= current_limit /\ xpc = "idle"

\* the scheduler may run one more node
CanStep == pc = "graph" /\ node # END /\ step < current_limit /\ xpc = "idle"

\* mutant: without tool calls the router's edge leads to the critic
AfterRouter_CriticByDefault(msgs) ==
    IF has_tool_calls(msgs) THEN "executor" ELSE "critic"

\* the conditional edge out of the router
AfterRouter(msgs) == router_decision(msgs, force_planner, force_critic)

\* mutant: the node asks the model again and appends both answers
ModelNode_AsksTwice(prompt, ai) ==
    LET msgs == ensure_system(state, prompt)
        out == msgs \o <<ai, AIMessage(Text(<<"second answer">>), <<>>)>>
    IN  /\ state' = add_messages(state, out, nextId + Len(ai.tool_calls))
        /\ nextId' = IdsAfter(state, out, nextId + Len(ai.tool_calls))
        /\ step' = step + 1
        /\ ran' = node
        /\ before' = Len(state)
        /\ llm_calls' = llm_calls + 2
        /\ node_execs' = node_execs + 1
        /\ UNCHANGED <<apart, typed, inputs, runvars, execvars, tool_invocations>>

\* mutant: the node's list replaces the channel instead of being merged
ModelNode_Overwrite(prompt, ai) ==
    LET msgs == ensure_system(state, prompt)
        out == msgs \o <<ai>>
    IN  /\ state' = AssignIds(out, nextId + Len(ai.tool_calls))
        /\ nextId' = IdsAfter(state, out, nextId + Len(ai.tool_calls))
        /\ step' = step + 1
        /\ ran' = node
        /\ before' = Len(state)
        /\ llm_calls' = llm_calls + 1
        /\ node_execs' = node_execs + 1
        /\ UNCHANGED <<apart, typed, inputs, runvars, execvars, tool_invocations>>

\* a node that makes one model call and appends its AI message
ModelNode(prompt, ai) ==
    LET msgs == ensure_system(state, prompt)
        out == msgs \o <<ai>>
    IN  /\ state' = add_messages(state, out, nextId + Len(ai.tool_calls))
        /\ nextId' = IdsAfter(state, out, nextId + Len(ai.tool_calls))
        /\ step' = step + 1
        /\ ran' = node
        /\ before' = Len(state)
        /\ llm_calls' = llm_calls + 1
        /\ node_execs' = node_execs + 1
        /\ UNCHANGED <<apart, typed, inputs, runvars, execvars, tool_invocations>>

RouterNode ==
    /\ CanStep /\ node = "router"
    /\ asked' = IF Len(RouterReply(nextId).tool_calls) > 0 THEN asked + 1 ELSE asked
    /\ ModelNode(ROUTER_SYSTEM_PROMPT, RouterReply(nextId))
    /\ node' = AfterRouter(state')

PlannerNode ==
    /\ CanStep /\ node = "planner"
    /\ ModelNode(PLANNER_SYSTEM_PROMPT, PlainReply)
    /\ node' = "router"
    /\ UNCHANGED asked

\* mutant: the critic's outgoing edge leads to END
CriticNode_ToEnd ==
    /\ CanStep /\ node = "critic"
    /\ ModelNode(CRITIC_SYSTEM_PROMPT, PlainReply)
    /\ node' = END
    /\ UNCHANGED asked

CriticNode ==
    /\ CanStep /\ node = "critic"
    /\ ModelNode(CRITIC_SYSTEM_PROMPT, PlainReply)
    /\ node' = "router"
    /\ UNCHANGED asked

\* mutant: the node catches the failure, appends an AI message saying so and
\* hands control back to the router
ModelCallFails_Swallowed ==
    /\ CanStep /\ node \in {"router", "planner", "critic"}
    /\ error' = "InvocationError"
    /\ LET out == ensure_system(state, SYSTEM_PROMPT)
                  \o <<AIMessage(Text(<<"model call failed">>), <<>>)>>
       IN  /\ state' = add_messages(state, out, nextId)
           /\ nextId' = IdsAfter(state, out, nextId)
    /\ node' = "router"
    /\ step' = step + 1
    /\ ran' = node
    /\ before' = Len(state)
    /\ llm_calls' = llm_calls + 1
    /\ node_execs' = node_execs + 1
    /\ UNCHANGED <<apart, typed, inputs, pc, messages, current_limit, attempt, action, result,
                   asked, execvars, tool_invocations>>

\* llm.invoke raises inside a router, planner or critic node: nothing catches it
ModelCallFails ==
    /\ CanStep /\ node \in {"router", "planner", "critic"}
    /\ llm_calls' = llm_calls + 1
    /\ node_execs' = node_execs + 1
    /\ pc' = "raised"
    /\ error' = "InvocationError"
    /\ UNCHANGED <<apart, typed, inputs, messages, current_limit, attempt, action, result,
                   graphvars, execvars, tool_invocations>>

(* --------------------------- executor node ---------------------------- *)
Pending == [py |-> "pending"]

\* The scheduler is invoked synchronously and the executor is an async
\* function: the scheduler refuses to run it.
SchedulerRejectsAsyncNode ==
    /\ CanStep /\ node = "executor"
    /\ pc' = "raised"
    /\ error' = "TypeError"
    /\ UNCHANGED <<apart, typed, inputs, messages, current_limit, attempt, action, result,
                   graphvars, execvars, counters>>

\* mutant: without pending calls on the last message the node takes the
\* calls of the latest AI message that has some
ExecutorEnter_LatestCalls ==
    /\ CanStep /\ node = "executor"
    /\ LET msgs == ensure_system(state, EXECUTOR_SYSTEM_PROMPT)
           asking == {i \in DOMAIN msgs : msgs[i].type = "ai" /\ Len(msgs[i].tool_calls) > 0}
           latest == CHOOSE i \in asking : \A j \in asking : j <= i
       IN  /\ xmessages' = msgs
           /\ IF asking # {}
              THEN /\ calls' = msgs[latest].tool_calls
                   /\ xpc' = "dispatch"
              ELSE /\ calls' = <<>>
                   /\ xpc' = "return"
    /\ xi' = 1
    /\ results' = <<>>
    /\ async_calls' = <<>>
    /\ outputs' = <<>>
    /\ xlog' = <<>>
    /\ node_execs' = node_execs + 1
    /\ UNCHANGED <<apart, typed, inputs, runvars, graphvars, llm_calls, tool_invocations>>

\* executor_node up to the call of _execute_tool_calls
ExecutorEnter ==
    /\ CanStep /\ node = "executor"
    /\ LET msgs == ensure_system(state, EXECUTOR_SYSTEM_PROMPT)
           last_ai == msgs[Len(msgs)]
       IN  /\ xmessages' = msgs
           /\ IF last_ai.type = "ai" /\ Len(last_ai.tool_calls) > 0
              THEN /\ calls' = last_ai.tool_calls
                   /\ xpc' = "dispatch"
              ELSE /\ calls' = <<>>
                   /\ xpc' = "return"
    /\ xi' = 1
    /\ results' = <<>>
    /\ async_calls' = <<>>
    /\ outputs' = <<>>
    /\ xlog' = <<>>
    /\ node_execs' = node_execs + 1
    /\ UNCHANGED <<apart, typed, inputs, runvars, graphvars, llm_calls, tool_invocations>>

\* mutant: an asynchronous tool is started where the loop meets its call
ExecutorDispatch_AsyncStartsInLoop ==
    /\ xpc = "dispatch" /\ xi <= Len(calls)
    /\ LET call == calls[xi]
       IN  IF call.name \notin DOMAIN tools_map
           THEN /\ results' = Append(results, NotFound(call))
                /\ UNCHANGED <<async_calls, xlog, tool_invocations>>
           ELSE IF IsAsyncTool(tools_map[call.name])
           THEN /\ async_calls' = Append(async_calls, call)
                /\ xlog' = Append(xlog, <<"start", call.id>>)
                /\ UNCHANGED <<results, tool_invocations>>
           ELSE /\ results' = Append(results, SyncResult(call))
                /\ xlog' = xlog \o <<<<"start", call.id>>, <<"end", call.id>>>>
                /\ tool_invocations' = tool_invocations + 1
                /\ UNCHANGED async_calls
    /\ xi' = xi + 1
    /\ UNCHANGED <<apart, typed, inputs, runvars, graphvars, xpc, xmessages, calls, outputs,
                   llm_calls, node_execs>>

\* mutant: in a retry a synchronous tool is not invoked again, its earlier
\* result is used
ExecutorDispatch_OncePerRun ==
    /\ xpc = "dispatch" /\ xi <= Len(calls)
    /\ LET call == calls[xi]
       IN  IF call.name \notin DOMAIN tools_map
           THEN /\ results' = Append(results, NotFound(call))
                /\ UNCHANGED <<async_calls, xlog, tool_invocations>>
           ELSE IF IsAsyncTool(tools_map[call.name])
           THEN /\ async_calls' = Append(async_calls, call)
                /\ UNCHANGED <<results, xlog, tool_invocations>>
           ELSE /\ results' = Append(results, SyncResult(call))
                /\ xlog' = xlog \o <<<<"start", call.id>>, <<"end", call.id>>>>
                /\ tool_invocations' = IF attempt > 1 THEN tool_invocations
                                       ELSE tool_invocations + 1
                /\ UNCHANGED async_calls
    /\ xi' = xi + 1
    /\ UNCHANGED <<apart, typed, inputs, runvars, graphvars, xpc, xmessages, calls, outputs,
                   llm_calls, node_execs>>

\* mutant: a synchronous tool that raises ends the loop over the calls
ExecutorDispatch_StopOnError ==
    /\ xpc = "dispatch" /\ xi <= Len(calls)
    /\ LET call == calls[xi]
       IN  IF call.name \notin DOMAIN tools_map
           THEN /\ results' = Append(results, NotFound(call))
                /\ xi' = xi + 1
                /\ UNCHANGED <<async_calls, xlog, tool_invocations>>
           ELSE IF IsAsyncTool(tools_map[call.name])
           THEN /\ async_calls' = Append(async_calls, call)
                /\ xi' = xi + 1
                /\ UNCHANGED <<results, xlog, tool_invocations>>
           ELSE /\ results' = Append(results, SyncResult(call))
                /\ xlog' = xlog \o <<<<"start", call.id>>, <<"end", call.id>>>>
                /\ tool_invocations' = tool_invocations + 1
                /\ xi' = IF Invoke(tools_map[call.name]).py = "Exception"
                         THEN Len(calls) + 1 ELSE xi + 1
                /\ UNCHANGED async_calls
    /\ UNCHANGED <<apart, typed, inputs, runvars, graphvars, xpc, xmessages, calls, outputs,
                   llm_calls, node_execs>>

\* one iteration of the loop over ai_msg.tool_calls
ExecutorDispatch ==
    /\ xpc = "dispatch" /\ xi <= Len(calls)
    /\ LET call == calls[xi]
       IN  IF call.name \notin DOMAIN tools_map
           THEN /\ results' = Append(results, NotFound(call))
                /\ UNCHANGED <<async_calls, xlog, tool_invocations>>
           ELSE IF IsAsyncTool(tools_map[call.name])
           THEN /\ async_calls' = Append(async_calls, call)
                /\ UNCHANGED <<results, xlog, tool_invocations>>
           ELSE /\ results' = Append(results, SyncResult(call))
                /\ xlog' = xlog \o <<<<"start", call.id>>, <<"end", call.id>>>>
                /\ tool_invocations' = tool_invocations + 1
                /\ UNCHANGED async_calls
    /\ xi' = xi + 1
    /\ UNCHANGED <<apart, typed, inputs, runvars, graphvars, xpc, xmessages, calls, outputs,
                   llm_calls, node_execs>>

\* after the loop: tasks = [tool.ainvoke(args) ...]; asyncio.gather(*tasks)
ExecutorFanOut ==
    /\ xpc = "dispatch" /\ xi > Len(calls)
    /\ IF async_calls # <<>>
       THEN /\ outputs' = [k \in DOMAIN async_calls |-> Pending]
            /\ xlog' = xlog \o [k \in DOMAIN async_calls |-> <<"start", async_calls[k].id>>]
            /\ tool_invocations' = tool_invocations + Len(async_calls)
            /\ xpc' = "gather"
       ELSE /\ xpc' = "return"
            /\ UNCHANGED <<outputs, xlog, tool_invocations>>
    /\ UNCHANGED <<apart, typed, inputs, runvars, graphvars, xmessages, calls, xi, results,
                   async_calls, llm_calls, node_execs>>

\* one gathered task finishes, with its value or its exception
TaskFinish(k) ==
    /\ xpc = "gather" /\ outputs[k] = Pending
    /\ outputs' = [outputs EXCEPT ![k] = Invoke(tools_map[async_calls[k].name])]
    /\ xlog' = Append(xlog, <<"end", async_calls[k].id>>)
    /\ UNCHANGED <<apart, typed, inputs, runvars, graphvars, xpc, xmessages, calls, xi, results,
                   async_calls, counters>>

\* mutant: outputs that are exceptions get no tool message
ExecutorFanIn_SkipFailed ==
    /\ xpc = "gather" /\ \A k \in DOMAIN outputs : outputs[k] # Pending
    /\ results' = results \o
           SelectSeq([k \in DOMAIN async_calls |-> AsyncResult(async_calls[k], outputs[k])],
                     LAMBDA m : m.content.fmt = "text")
    /\ xpc' = "return"
    /\ UNCHANGED <<apart, typed, inputs, runvars, graphvars, xmessages, calls, xi, async_calls,
                   outputs, xlog, counters>>

\* mutant: the wait ends with the first finished task
ExecutorFanIn_FirstCompleted ==
    /\ xpc = "gather" /\ \E k \in DOMAIN outputs : outputs[k] # Pending
    /\ results' = results \o
           [k \in 1..Cardinality({j \in DOMAIN outputs : outputs[j] # Pending}) |->
               LET j == CHOOSE j \in DOMAIN outputs :
                            /\ outputs[j] # Pending
                            /\ Cardinality({i \in 1..j : outputs[i] # Pending}) = k
               IN  AsyncResult(async_calls[j], outputs[j])]
    /\ xpc' = "return"
    /\ UNCHANGED <<apart, typed, inputs, runvars, graphvars, xmessages, calls, xi, async_calls,
                   outputs, xlog, counters>>

\* gather returns once every task is done; zip(async_calls, outputs)
ExecutorFanIn ==
    /\ xpc = "gather" /\ \A k \in DOMAIN outputs : outputs[k] # Pending
    /\ results' = results \o [k \in DOMAIN async_calls |-> AsyncResult(async_calls[k], outputs[k])]
    /\ xpc' = "return"
    /\ UNCHANGED <<apart, typed, inputs, runvars, graphvars, xmessages, calls, xi, async_calls,
                   outputs, xlog, counters>>

\* executor_node returns messages + tool_msgs; the edge executor -> router
ExecutorReturn ==
    /\ xpc = "return"
    /\ LET out == xmessages \o results
       IN  /\ state' = add_messages(state, out, nextId)
           /\ nextId' = IdsAfter(state, out, nextId)
    /\ node' = "router"
    /\ step' = step + 1
    /\ ran' = "executor"
    /\ before' = Len(state)
    /\ xpc' = "idle"
    /\ xlog' = <<>>
    /\ UNCHANGED <<apart, typed, inputs, runvars, asked, xmessages, calls, xi, results, async_calls,
                   outputs, counters>>

(* ------------------------ scheduler outcomes -------------------------- *)
\* the graph reached END: invoke returns the final state and run() returns it
GraphEnd ==
    /\ pc = "graph" /\ node = END
    /\ result' = state
    /\ pc' = "returned"
    /\ UNCHANGED <<apart, typed, inputs, messages, current_limit, attempt, action, error,
                   graphvars, execvars, counters>>

\* recursion_limit node executions were made and the graph is not at END:
\* invoke raises GraphRecursionError, caught by run()
RecursionLimitHit ==
    /\ pc = "graph" /\ node # END /\ step >= current_limit /\ xpc = "idle"
    /\ pc' = "prompt"
    /\ UNCHANGED <<apart, typed, inputs, messages, current_limit, attempt, action, result, error,
                   graphvars, execvars, counters>>

(* ------------------------ recursion governor -------------------------- *)
\* mutant: EOFError and KeyboardInterrupt from input() are not caught
prompt_choice_NoExcept(line) ==
    IF line \in {EOF, INT} THEN "EOFError"
    ELSE LET choice == Lower(Strip(line))
         IN  IF choice \in {<<"/","p","a","u","s","e">>, <<"p","a","u","s","e">>} THEN "pause"
             ELSE IF choice \in {<<"y">>, <<"y","e","s">>, <<>>} THEN "continue"
             ELSE IF choice \in {<<"n">>, <<"n","o">>, <<"/","s","t","o","p">>, <<"s","t","o","p">>,
                                 <<"/","q","u","i","t">>, <<"q","u","i","t">>} THEN "stop"
             ELSE "invalid"

\* mutant: a line that is not understood counts as a yes
prompt_choice_UnknownContinues(line) ==
    IF line \in {EOF, INT} THEN "stop"
    ELSE LET choice == Lower(Strip(line))
         IN  IF choice \in {<<"/","p","a","u","s","e">>, <<"p","a","u","s","e">>} THEN "pause"
             ELSE IF choice \in {<<"n">>, <<"n","o">>, <<"/","s","t","o","p">>, <<"s","t","o","p">>,
                                 <<"/","q","u","i","t">>, <<"q","u","i","t">>} THEN "stop"
             ELSE "continue"

\* _prompt_on_recursion on one line of input; "invalid" asks again
prompt_choice(line) ==
    IF line \in {EOF, INT} THEN "stop"
    ELSE LET choice == Lower(Strip(line))
         IN  IF choice \in {<<"/","p","a","u","s","e">>, <<"p","a","u","s","e">>} THEN "pause"
             ELSE IF choice \in {<<"y">>, <<"y","e","s">>, <<>>} THEN "continue"
             ELSE IF choice \in {<<"n">>, <<"n","o">>, <<"/","s","t","o","p">>, <<"s","t","o","p">>,
                                 <<"/","q","u","i","t">>, <<"q","u","i","t">>} THEN "stop"
             ELSE "invalid"

SyntheticAI(kind, cap) == AIMessage([fmt |-> "text", text |-> <<kind>>, cap |-> cap], <<>>)
pause_msg == SyntheticAI("Execution paused", current_limit)
stop_msg == SyntheticAI("Stopped: recursion limit reached, not continuing.", 0)

\* mutant: pause and stop return the conversation reached at the breach
Resolve_ReturnsBreachState(a) ==
    /\ action' = a
    /\ IF a = "pause"
       THEN /\ result' = state \o <<pause_msg>>
            /\ pc' = "returned"
            /\ UNCHANGED current_limit
       ELSE IF a = "stop"
       THEN /\ result' = state \o <<stop_msg>>
            /\ pc' = "returned"
            /\ UNCHANGED current_limit
       ELSE /\ current_limit' = current_limit + increment
            /\ pc' = "loop"
            /\ UNCHANGED result

\* mutant: pause does not return, it falls through to the retry
Resolve_PauseFallsThrough(a) ==
    /\ action' = a
    /\ IF a = "stop"
       THEN /\ result' = messages \o <<stop_msg>>
            /\ pc' = "returned"
            /\ UNCHANGED current_limit
       ELSE /\ current_limit' = current_limit + increment
            /\ pc' = "loop"
            /\ UNCHANGED result

\* the except branch of run() for the resolution a
\* mutant: a continue sets the cap back to the increment
Resolve_CapReset(a) ==
    /\ action' = a
    /\ IF a = "pause"
       THEN /\ result' = messages \o <<pause_msg>>
            /\ pc' = "returned"
            /\ UNCHANGED current_limit
       ELSE IF a = "stop"
       THEN /\ result' = messages \o <<stop_msg>>
            /\ pc' = "returned"
            /\ UNCHANGED current_limit
       ELSE /\ current_limit' = increment
            /\ pc' = "loop"
            /\ UNCHANGED result

Resolve(a) ==
    /\ action' = a
    /\ IF a = "pause"
       THEN /\ result' = messages \o <<pause_msg>>
            /\ pc' = "returned"
            /\ UNCHANGED current_limit
       ELSE IF a = "stop"
       THEN /\ result' = messages \o <<stop_msg>>
            /\ pc' = "returned"
            /\ UNCHANGED current_limit
       ELSE /\ current_limit' = current_limit + increment
            /\ pc' = "loop"
            /\ UNCHANGED result

\* the operator answers the prompt; the number of continues explored is bounded
OperatorAnswers(line) ==
    /\ pc = "prompt"
    /\ LET a == prompt_choice(line)
       IN  IF a = "invalid"
           THEN UNCHANGED <<action, result, pc, current_limit>>
           ELSE /\ a = "continue" => attempt <= MaxContinues
                /\ Resolve(a)
    /\ typed' = line
    /\ UNCHANGED <<apart, inputs, messages, attempt, error, graphvars, execvars, counters>>

Next ==
    \/ RunStart
    \/ InvokeGraph
    \/ RouterNode
    \/ PlannerNode
    \/ CriticNode
    \/ ModelCallFails
    \/ SchedulerRejectsAsyncNode
    \/ ExecutorEnter
    \/ ExecutorDispatch
    \/ ExecutorFanOut
    \/ \E k \in DOMAIN outputs : TaskFinish(k)
    \/ ExecutorFanIn
    \/ ExecutorReturn
    \/ GraphEnd
    \/ RecursionLimitHit
    \/ \E line \in PromptInputs : OperatorAnswers(line)

Spec == Init /\ [][Next]_vars

(* ----------------- executor_node called on its own -------------------- *)
\* the ends of the conversations executor_node is called with: nothing, a
\* human message, a plain AI reply, an AI message asking for the batch, that
\* batch already answered, and a plain AI reply after the answered batch
ExecutorTails(b) ==
    LET human == HumanMessage(Text(<<"user input">>))
        ai == AIMessage(Text(<<"calling tools">>),
                        [i \in DOMAIN b |-> [id |-> i, name |-> b[i]]])
        answers == [i \in DOMAIN b |-> ToolMessage(Text(<<"X">>), i)]
    IN  { <<>>, <<human>>, <<human, PlainReply>>, <<human, ai>>,
          <<human, ai>> \o answers, <<human, ai>> \o answers \o <<PlainReply>> }

\* executor_node(state, llm, tools) is about to be called with a state whose
\* messages came through the channel
ExecutorInit ==
    /\ history \in Histories
    /\ force_planner = <<>> /\ force_critic = <<>>
    /\ batch \in Batches /\ rounds = 0
    /\ \E tail \in ExecutorTails(batch) :
           /\ state = AssignIds(history \o tail, Len(batch) + 1)
           /\ caller_history = SubSeq(AssignIds(history \o tail, Len(batch) + 1), 1, Len(history))
           /\ nextId = IdsAfter(<<>>, history \o tail, Len(batch) + 1)
    /\ pc = "graph"
    /\ messages = <<>> /\ current_limit = DefaultLimit /\ attempt = 1
    /\ action = "none" /\ result = <<>> /\ error = "none" /\ typed = None
    /\ node = "executor" /\ step = 0 /\ asked = 0
    /\ ran = "none" /\ before = 0
    /\ xpc = "idle" /\ xmessages = <<>> /\ calls = <<>> /\ xi = 0
    /\ results = <<>> /\ async_calls = <<>> /\ outputs = <<>> /\ xlog = <<>>
    /\ llm_calls = 0 /\ tool_invocations = 0 /\ node_execs = 0
    /\ NothingApart

ExecutorNext ==
    \/ ExecutorEnter
    \/ ExecutorDispatch
    \/ ExecutorFanOut
    \/ \E k \in DOMAIN outputs : TaskFinish(k)
    \/ ExecutorFanIn
    \/ ExecutorReturn

ExecutorSpec == ExecutorInit /\ [][ExecutorNext]_vars

(* ------------------- functions called on their own -------------------- *)
\* the message lists ensure_system is called with
MessageLists ==
    SeqsUpTo({ SystemMessage(Text(<<"caller-prompt">>)), HumanMessage(Text(<<"hi">>)),
               AIMessage(Text(<<"hello">>), <<>>), ToolMessage(Text(<<"X">>), 1) },
             MaxMessages)

\* override_prompt: not passed, the empty string, a prompt
Overrides == {None, <<>>, <<"node-prompt">>}

RunInputsFixed ==
    /\ history = <<>> /\ caller_history = <<>> /\ force_planner = <<>> /\ force_critic = <<>>
    /\ batch = <<"sync_ok">> /\ rounds = 0

\* what tools return: values json has a form for ...
Atoms ==
    { PyNone, PyBool(TRUE), PyBool(FALSE), PyInt(0), PyInt(-7), PyInt(120),
      PyStr(<<>>), PyStr(<<"a", "\"", "\\">>), PyStr(<<"\n", "<e9>">>),
      PyStr(<<"n", "u", "l", "l">>) }

\* ... and values it has none for: an object, a tuple, a container in itself
Others == { PyObject(<<"o", "b", "j">>), PyTuple(<<PyInt(1)>>), PyCyclic }

DictKeys == { PyStr(<<"k">>), PyStr(<<>>), PyStr(<<"1">>), PyInt(1) }

\* dicts of up to MaxItems items with distinct keys
Dicts ==
    { PyDict(pairs) : pairs \in
        { q \in SeqsUpTo(DictKeys \X {PyInt(0), PyStr(<<"\"">>), PyList(<<PyNone>>)},
                         MaxItems) :
            \A i, j \in DOMAIN q : q[i][1] = q[j][1] => i = j } }

Lists ==
    { PyList(items) : items \in
        SeqsUpTo(Atoms \cup Others
                     \cup { PyList(<<PyBool(TRUE), PyStr(<<"a">>)>>),
                            PyDict(<< <<PyStr(<<"k">>), PyList(<<>>)>> >>) },
                 MaxItems) }

Outputs == Atoms \cup Others \cup Dicts \cup Lists

NotParsed == [ok |-> FALSE, val |-> PyNone]

PureInit ==
    /\ RunInputsFixed /\ NoRunYet /\ TracerOfEngine /\ NoTwoRuns /\ NoEmail /\ NoChat
    /\ ret = <<>> /\ applied = 0
    /\ \/ /\ fn = "ensure_system"
          /\ arg \in [messages : MessageLists, override_prompt : Overrides]
       \/ /\ fn = "_serialize_output"
          /\ arg \in [output : Outputs]

\* ensure_system(messages, override_prompt), then again on what it returned
ApplyEnsureSystem ==
    /\ fn = "ensure_system" /\ applied < 2
    /\ ret' = ensure_system(IF applied = 0 THEN arg.messages ELSE ret, arg.override_prompt)
    /\ applied' = applied + 1
    /\ UNCHANGED <<fn, arg, tracervars, tworunvars, emailvars, webvars, typed, inputs, runvars, graphvars, execvars, counters>>

\* _serialize_output(output): the content of the tool message
ApplySerialize ==
    /\ fn = "_serialize_output" /\ applied = 0
    /\ ret' = [text |-> serialize_output_chars(arg.output), parsed |-> NotParsed]
    /\ applied' = 1
    /\ UNCHANGED <<fn, arg, tracervars, tworunvars, emailvars, webvars, typed, inputs, runvars, graphvars, execvars, counters>>

\* a reader of the tool message parses its content with json.loads
ApplyLoads ==
    /\ fn = "_serialize_output" /\ applied = 1
    /\ ret' = [ret EXCEPT !.parsed = json_loads(ret.text)]
    /\ applied' = 2
    /\ UNCHANGED <<fn, arg, tracervars, tworunvars, emailvars, webvars, typed, inputs, runvars, graphvars, execvars, counters>>

PureNext ==
    \/ ApplyEnsureSystem
    \/ ApplySerialize
    \/ ApplyLoads

PureSpec == PureInit /\ [][PureNext]_vars

(* ------------------------------ tracer -------------------------------- *)
\* a process in which get_tracer has not been called: what the environment
\* names as trace file, which paths cannot be opened, and log files that
\* hold a record of an earlier process
TracerInit ==
    /\ RunInputsFixed /\ NoRunYet /\ NoPureCall /\ NoTwoRuns /\ NoEmail /\ NoChat
    /\ _SINGLETON = NoTracer /\ handlers = <<>> /\ instances = 0
    /\ files = [p \in TracePaths |-> <<[event |-> "old", trace_error |-> FALSE]>>]
    /\ unwritable \in SUBSET TracePaths
    /\ env_trace \in {None, <<"a.log">>, <<"/nodir/b.log">>}
    /\ requested = <<>> /\ got = <<>> /\ trace_raised = "none"

\* get_tracer(logfile), EventTracer.__post_init__ included
get_tracer(logfile) ==
    /\ Len(requested) < MaxTracerCalls
    /\ requested' = Append(requested, logfile)
    /\ IF _SINGLETON # NoTracer
       THEN /\ got' = Append(got, _SINGLETON)
            /\ trace_raised' = "none"
            /\ UNCHANGED <<_SINGLETON, handlers, files, instances>>
       ELSE LET path == PyOr(PyOr(logfile, env_trace), DefaultTraceFile)
                tracer == [id |-> instances + 1, logfile |-> path]
            IN  IF handlers # <<>>
                THEN /\ _SINGLETON' = tracer
                     /\ instances' = instances + 1
                     /\ got' = Append(got, tracer)
                     /\ trace_raised' = "none"
                     /\ UNCHANGED <<handlers, files>>
                ELSE IF path \in unwritable
                \* open(logfile, "w") fails and is swallowed; FileHandler's
                \* open fails and is not
                THEN /\ trace_raised' = "OSError"
                     /\ instances' = instances + 1
                     /\ got' = Append(got, Raised)
                     /\ UNCHANGED <<_SINGLETON, handlers, files>>
                ELSE /\ files' = [files EXCEPT ![path] = <<>>]
                     /\ handlers' = <<path>>
                     /\ _SINGLETON' = tracer
                     /\ instances' = instances + 1
                     /\ got' = Append(got, tracer)
                     /\ trace_raised' = "none"
    /\ UNCHANGED <<unwritable, env_trace, purevars, tworunvars, emailvars, webvars, typed, inputs, runvars, graphvars,
                   execvars, counters>>

\* EventTracer.log(event, **fields) on the process-wide tracer; the fields
\* may be something json.dumps rejects
log(serializable) ==
    /\ _SINGLETON # NoTracer
    /\ \A h \in DOMAIN handlers : Len(files[handlers[h]]) < MaxRecords
    /\ LET record == [event |-> "event", trace_error |-> ~serializable]
       IN  files' = [p \in TracePaths |->
                        IF \E h \in DOMAIN handlers : handlers[h] = p
                        THEN Append(files[p], record) ELSE files[p]]
    /\ trace_raised' = "none"
    /\ UNCHANGED <<_SINGLETON, handlers, unwritable, env_trace, instances, requested,
                   got, purevars, tworunvars, emailvars, webvars, typed, inputs, runvars, graphvars, execvars, counters>>

TracerNext ==
    \/ \E logfile \in {None} \cup TracePaths : get_tracer(logfile)
    \/ \E serializable \in BOOLEAN : log(serializable)

TracerSpec == TracerInit /\ [][TracerNext]_vars

(* -------------------- two run() calls on one engine ------------------- *)
\* run() keeps messages, current_limit and attempt in locals, and each
\* app.invoke has a channel and a step counter of its own (the graph is
\* compiled without a checkpointer).  What the calls have in common is self:
\* the tracer, the models, the tools.  The graph is taken coarsely here: a
\* node adds one reply and the routing then ends the graph or goes on.
\* Message ids are left out (uuid4 values, drawn for each channel).
Calls == {1, 2}

CallHistory(i) ==
    IF i = 1 THEN <<>>
    ELSE <<HumanMessage(Text(<<"earlier">>)), PlainReply>>

CallInput(i) == IF i = 1 THEN <<"first input">> ELSE <<"second input">>

CallSeed(i) == CallHistory(i) \o <<HumanMessage(Text(CallInput(i)))>>

NotCalled ==
    [pc |-> "idle", messages |-> <<>>, current_limit |-> 0, attempt |-> 0,
     action |-> "none", state |-> <<>>, step |-> 0, result |-> <<>>]

TwoRunInit ==
    /\ RunInputsFixed /\ NoRunYet /\ NoPureCall /\ TracerOfEngine /\ NoEmail /\ NoChat
    /\ runs = [i \in Calls |-> NotCalled]
    /\ written = 0

OthersUntouched == UNCHANGED <<purevars, tracervars, emailvars, webvars, typed, inputs, runvars, graphvars,
                               execvars, counters>>

\* run(): the seed, current_limit = 25, attempt = 0, log("run_start")
CallStart(i) ==
    /\ runs[i].pc = "idle"
    /\ runs' = [runs EXCEPT ![i] = [@ EXCEPT !.messages = CallSeed(i),
                                             !.current_limit = DefaultLimit,
                                             !.attempt = 0,
                                             !.pc = "loop"]]
    /\ written' = written + 1
    /\ OthersUntouched

\* attempt += 1; self.app.invoke({"messages": messages}[, recursion_limit])
CallInvoke(i) ==
    /\ runs[i].pc = "loop"
    /\ runs' = [runs EXCEPT ![i] = [@ EXCEPT !.attempt = @ + 1,
                                             !.state = runs[i].messages,
                                             !.step = 0,
                                             !.pc = "graph"]]
    /\ UNCHANGED written
    /\ OthersUntouched

\* a node of this invocation runs and the graph goes on
CallNode(i) ==
    /\ runs[i].pc = "graph" /\ runs[i].step < runs[i].current_limit
    /\ runs' = [runs EXCEPT ![i] = [@ EXCEPT !.step = @ + 1,
                                             !.state = Append(@, PlainReply)]]
    /\ UNCHANGED written
    /\ OthersUntouched

\* the graph reached END: log("run_end"), return result
CallEnd(i) ==
    /\ runs[i].pc = "graph" /\ runs[i].step >= 1
    /\ runs' = [runs EXCEPT ![i] = [@ EXCEPT !.result = runs[i].state,
                                             !.pc = "returned"]]
    /\ written' = written + 1
    /\ OthersUntouched

\* GraphRecursionError: log("recursion_limit_hit"), _prompt_on_recursion()
CallBreach(i) ==
    /\ runs[i].pc = "graph" /\ runs[i].step >= runs[i].current_limit
    /\ runs' = [runs EXCEPT ![i] = [@ EXCEPT !.pc = "prompt"]]
    /\ written' = written + 1
    /\ OthersUntouched

\* mutant: the cap is kept on the engine, one for all calls
CallResolve_CapOnEngine(i, a) ==
    /\ runs[i].pc = "prompt"
    /\ a = "continue" => runs[i].attempt <= MaxContinues
    /\ runs' =
         IF a = "continue"
         THEN [j \in Calls |->
                 IF j = i
                 THEN [runs[j] EXCEPT !.action = a, !.pc = "loop",
                                      !.current_limit = runs[i].current_limit + increment]
                 ELSE [runs[j] EXCEPT !.current_limit = runs[i].current_limit + increment]]
         ELSE [runs EXCEPT ![i] =
                 [@ EXCEPT !.action = a, !.pc = "returned",
                           !.result = runs[i].messages \o
                               <<IF a = "pause"
                                 THEN SyntheticAI("Execution paused", runs[i].current_limit)
                                 ELSE stop_msg>>]]
    /\ written' = written + 1
    /\ OthersUntouched

\* the except branch of run() for the resolution a, each branch with its log
CallResolve(i, a) ==
    /\ runs[i].pc = "prompt"
    /\ a = "continue" => runs[i].attempt <= MaxContinues
    /\ runs' =
         [runs EXCEPT ![i] =
            IF a = "continue"
            THEN [@ EXCEPT !.action = a, !.pc = "loop",
                           !.current_limit = @ + increment]
            ELSE [@ EXCEPT !.action = a, !.pc = "returned",
                           !.result = runs[i].messages \o
                               <<IF a = "pause"
                                 THEN SyntheticAI("Execution paused", runs[i].current_limit)
                                 ELSE stop_msg>>]]
    /\ written' = written + 1
    /\ OthersUntouched

TwoRunNext ==
    \/ \E i \in Calls : CallStart(i)
    \/ \E i \in Calls : CallInvoke(i)
    \/ \E i \in Calls : CallNode(i)
    \/ \E i \in Calls : CallEnd(i)
    \/ \E i \in Calls : CallBreach(i)
    \/ \E i \in Calls, a \in {"pause", "stop", "continue"} : CallResolve(i, a)

TwoRunSpec == TwoRunInit /\ [][TwoRunNext]_vars

(* ----------------------------- EmailTools ----------------------------- *)
\* AccountInfo(name, provider, email); every str is a sequence of characters
AccountInfo(name, provider, email) == [name |-> name, provider |-> provider, email |-> email]

gmail == <<"g","m","a","i","l">>
work == <<"w","o","r","k">>
home == <<"h","o","m","e">>

\* tools.PROVIDERS: the keys that have a provider class
PROVIDERS == {gmail}

\* accounts of the provider instances a caller registers: two under one
\* name, one whose provider is written with a capital, one without an address
Accounts ==
    { AccountInfo(work, gmail, <<"w","@","x">>),
      AccountInfo(work, gmail, <<"W","2","@","x">>),
      AccountInfo(home, <<"G","m","a","i","l">>, <<"h","@","x">>),
      AccountInfo(home, gmail, <<>>) }

\* self._providers[name] = provider on an insertion-ordered dict
DictPut(d, acc) ==
    IF \E i \in DOMAIN d : d[i].name = acc.name
    THEN [i \in DOMAIN d |-> IF d[i].name = acc.name THEN acc ELSE d[i]]
    ELSE Append(d, acc)

\* self._providers.pop(account, None)
DictPop(d, name) == SelectSeq(d, LAMBDA a : a.name # name)

\* _persist_accounts: the file after the write.  A failed write is caught and
\* printed; it leaves the file as it was, or cut short when the failure comes
\* after open(..., "w").
Persisted(d, w) ==
    CASE w = "ok" -> [ok |-> TRUE, entries |-> d]
      [] w = "unchanged" -> accounts_file
      [] w = "truncated" -> [ok |-> FALSE, entries |-> <<>>]

WriteOutcomes == {"ok", "unchanged", "truncated"}

RECURSIVE LoadEntries(_, _)
\* the loop of _load_persisted_accounts over the entries of the file
LoadEntries(entries, d) ==
    IF entries = <<>> THEN d
    ELSE LET entry == Head(entries)
             provider_key == Lower(entry.provider)
         IN  IF entry.name = <<>> \/ provider_key = <<>> \/ entry.email = <<>>
             THEN LoadEntries(Tail(entries), d)
             ELSE IF provider_key \notin PROVIDERS
             THEN LoadEntries(Tail(entries), d)
             ELSE LoadEntries(Tail(entries),
                              DictPut(d, AccountInfo(entry.name, provider_key, entry.email)))

\* _load_persisted_accounts on a new manager: nothing when json.load fails
_load_persisted_accounts(file) ==
    IF ~file.ok THEN <<>> ELSE LoadEntries(file.entries, <<>>)

\* what no operation on the email manager or tool touches
NoEmailEffect == UNCHANGED <<email_args, purevars, tracervars, tworunvars, webvars, typed, inputs,
                             runvars, graphvars, execvars, counters>>

(* tools.py *)
\* a call inside a tool either returns a value or raises an exception
Returns(value) == [raised |-> "none", value |-> value]
Raises(exc) == [raised |-> exc, value |-> <<>>]

\* what a tool hands to the agent layer: the keys of its dict, and the error
\* text as the tool's prefix and the exception it caught
_ok(has_meta) ==
    [raised |-> "none", success |-> TRUE,
     keys |-> {"success", "data"} \cup (IF has_meta THEN {"meta"} ELSE {}),
     error |-> [prefix |-> "", exc |-> ""]]

_err(prefix, exc) ==
    [raised |-> "none", success |-> FALSE, keys |-> {"success", "error"},
     error |-> [prefix |-> prefix, exc |-> exc]]

NoToolCall == [raised |-> "none", success |-> FALSE, keys |-> {},
               error |-> [prefix |-> "", exc |-> ""]]

\* the `account` argument: absent, a str, or a dict as list_email_accounts
\* gives it: its "name" and "email" values (None for a missing key) and
\* whether it has other keys
NoAccount == [t |-> "none", v |-> <<>>]
StrAccount(chars) == [t |-> "str", v |-> chars]
DictAccount(name, email, others) == [t |-> "dict", v |-> <<name, email, others>>]

\* bool(account)
AccountTruthy(account) ==
    CASE account.t = "none" -> FALSE
      [] account.t = "str" -> account.v # <<>>
      [] account.t = "dict" ->
             ~(account.v[1] = None /\ account.v[2] = None /\ ~account.v[3])

\* mutant: with several accounts and none named, the first one is taken
_resolve_account_name_TakesFirst(account) ==
    LET name == IF account.t = "dict" THEN PyOr(account.v[1], account.v[2]) ELSE None
    IN  IF account.t = "dict" /\ PyOr(name, None) # None THEN Returns(StrAccount(name))
        ELSE IF AccountTruthy(account) THEN Returns(account)
        ELSE IF Len(_providers) >= 1 THEN Returns(StrAccount(_providers[1].name))
        ELSE Raises("ValueError")

_resolve_account_name(account) ==
    LET name == IF account.t = "dict" THEN PyOr(account.v[1], account.v[2]) ELSE None
    IN  IF account.t = "dict" /\ PyOr(name, None) # None THEN Returns(StrAccount(name))
        ELSE IF AccountTruthy(account) THEN Returns(account)
        ELSE IF Len(_providers) = 1 THEN Returns(StrAccount(_providers[1].name))
        ELSE Raises("ValueError")

\* AllEmails._get: by name, else by address without regard to case; a dict
\* cannot be looked up in a dict (TypeError: unhashable type)
_get(account) ==
    IF account.t # "str" THEN Raises("TypeError")
    ELSE IF \E i \in DOMAIN _providers : _providers[i].name = account.v
    THEN Returns(CHOOSE a \in {_providers[i] : i \in DOMAIN _providers} : a.name = account.v)
    ELSE LET hits == {i \in DOMAIN _providers :
                         Lower(_providers[i].email) = Lower(account.v)}
         IN  IF hits # {}
             THEN Returns(_providers[CHOOSE i \in hits : \A j \in hits : i <= j])
             ELSE Raises("KeyError")

\* attachment specs: a path that exists, a path that does not, a dict with
\* filename and content, a dict without content, a value of another type
AttachmentKinds == {"path", "missing_path", "inline", "bad_inline", "unsupported"}

RECURSIVE CoerceItems(_, _)
CoerceItems(raw, missing) ==
    IF raw = <<>> THEN (IF missing THEN "ValueError" ELSE "none")
    ELSE IF Head(raw) = "bad_inline" THEN "ValueError"
    ELSE IF Head(raw) = "unsupported" THEN "TypeError"
    ELSE CoerceItems(Tail(raw), missing \/ Head(raw) = "missing_path")

\* _coerce_attachments(raw): the exception it raises, "none" when it returns
_coerce_attachments(raw) == IF raw = None THEN "none" ELSE CoerceItems(raw, FALSE)

\* the body of email_send's try block, up to the first exception
email_send_try(account, attachments, prov) ==
    LET acct == _resolve_account_name(account)
    IN  IF acct.raised # "none" THEN acct.raised
        ELSE IF _coerce_attachments(attachments) # "none"
        THEN _coerce_attachments(attachments)
        ELSE IF _get(acct.value).raised # "none" THEN _get(acct.value).raised
        ELSE IF prov = "raises" THEN "HttpError"
        ELSE "none"

\* email_send(account, ..., attachments=...) with a provider that sends or raises
email_send(account, attachments, prov) ==
    /\ email_ret' = LET exc == email_send_try(account, attachments, prov)
                    IN  IF exc = "none" THEN _ok(TRUE) ELSE _err("send failed", exc)
    /\ email_op' = "email_send"
    /\ UNCHANGED <<_providers, accounts_file, writes_ok>>
    /\ NoEmailEffect

\* email_count_unread(account)
email_count_unread(account, prov) ==
    /\ email_ret' = LET acct == _resolve_account_name(account)
                        exc == IF acct.raised # "none" THEN acct.raised
                               ELSE IF _get(acct.value).raised # "none"
                               THEN _get(acct.value).raised
                               ELSE IF prov = "raises" THEN "HttpError" ELSE "none"
                    IN  IF exc = "none" THEN _ok(TRUE) ELSE _err("count failed", exc)
    /\ email_op' = "email_count_unread"
    /\ UNCHANGED <<_providers, accounts_file, writes_ok>>
    /\ NoEmailEffect

\* add_account(provider, name, email); ctor: the provider class's constructor
\* returns or raises (no credentials)
add_account(provider, name, email, ctor, w) ==
    LET provider_key == Lower(provider)
        registers == provider_key \in PROVIDERS /\ ctor = "ok"
    IN  /\ email_ret' = IF provider_key \notin PROVIDERS
                        THEN _err("provider is not supported", "")
                        ELSE IF ctor = "raises"
                        THEN _err("failed to register", "FileNotFoundError")
                        ELSE _ok(FALSE)
        /\ _providers' = IF registers
                         THEN DictPut(_providers, AccountInfo(name, provider_key, email))
                         ELSE _providers
        /\ accounts_file' = IF registers THEN Persisted(_providers', w) ELSE accounts_file
        /\ writes_ok' = (writes_ok /\ (registers => w = "ok"))
        /\ email_op' = "add_account"
        /\ NoEmailEffect

AccountArgs ==
    { NoAccount, StrAccount(<<>>), StrAccount(work), StrAccount(<<"W","@","X">>),
      StrAccount(<<"n","o","b","o","d","y">>),
      DictAccount(work, None, TRUE), DictAccount(None, <<"h","@","x">>, FALSE),
      DictAccount(None, None, FALSE), DictAccount(<<>>, None, TRUE) }

AttachmentArgs == {None} \cup SeqsUpTo(AttachmentKinds, MaxItems)

\* add_account's provider argument: a key with a capital, a key without class
ProviderArgs == {<<"G","m","a","i","l">>, <<"i","m","a","p">>}

\* email_manager = AllEmails(providers=PROVIDERS) where no accounts file
\* exists: __init__ writes [] and loads it
EmailInit ==
    /\ RunInputsFixed /\ NoRunYet /\ NoPureCall /\ TracerOfEngine /\ NoTwoRuns /\ NoChat
    /\ _providers = <<>>
    /\ accounts_file = [ok |-> TRUE, entries |-> <<>>]
    /\ writes_ok = TRUE
    /\ email_op = "none"
    /\ email_ret = NoToolCall
    /\ email_args = [tool |-> "none"]

\* register(provider) with persist=True
register(acc, w) ==
    /\ _providers' = DictPut(_providers, acc)
    /\ accounts_file' = Persisted(_providers', w)
    /\ writes_ok' = (writes_ok /\ w = "ok")
    /\ email_op' = "register"
    /\ email_ret' = NoToolCall
    /\ NoEmailEffect

\* unregister(account)
unregister(name, w) ==
    /\ _providers' = DictPop(_providers, name)
    /\ accounts_file' = Persisted(_providers', w)
    /\ writes_ok' = (writes_ok /\ w = "ok")
    /\ email_op' = "unregister"
    /\ email_ret' = NoToolCall
    /\ NoEmailEffect

\* the process starts again: a new AllEmails over the file that is there
NewManager ==
    /\ _providers' = _load_persisted_accounts(accounts_file)
    /\ email_op' = "init"
    /\ email_ret' = NoToolCall
    /\ UNCHANGED <<accounts_file, writes_ok>>
    /\ NoEmailEffect

EmailNext ==
    \/ \E acc \in Accounts, w \in WriteOutcomes : register(acc, w)
    \/ \E name \in {work, home, <<"n","o","b","o","d","y">>}, w \in WriteOutcomes :
           unregister(name, w)
    \/ NewManager
    \/ \E provider \in ProviderArgs, email \in {<<"h","2","@","x">>, <<>>},
          ctor \in {"ok", "raises"}, w \in WriteOutcomes :
           add_account(provider, home, email, ctor, w)

EmailSpec == EmailInit /\ [][EmailNext]_vars

(* one call of an email tool *)
\* the registries register and unregister lead to
Registries ==
    { d \in SeqsUpTo(Accounts, 2) : \A i, j \in DOMAIN d : d[i].name = d[j].name => i = j }

ToolCalls ==
    [tool : {"email_send"}, account : AccountArgs, attachments : AttachmentArgs,
     prov : {"ok", "raises"}]
    \cup [tool : {"email_count_unread"}, account : AccountArgs, prov : {"ok", "raises"}]
    \cup [tool : {"add_account"}, provider : ProviderArgs,
          email : {<<"h","2","@","x">>, <<>>}, ctor : {"ok", "raises"}]

EmailToolInit ==
    /\ RunInputsFixed /\ NoRunYet /\ NoPureCall /\ TracerOfEngine /\ NoTwoRuns /\ NoChat
    /\ _providers \in Registries
    /\ accounts_file = [ok |-> TRUE, entries |-> _providers]
    /\ writes_ok = TRUE
    /\ email_op = "none"
    /\ email_ret = NoToolCall
    /\ email_args \in ToolCalls

CallEmailSend ==
    /\ email_op = "none" /\ email_args.tool = "email_send"
    /\ email_send(email_args.account, email_args.attachments, email_args.prov)

CallEmailCountUnread ==
    /\ email_op = "none" /\ email_args.tool = "email_count_unread"
    /\ email_count_unread(email_args.account, email_args.prov)

CallAddAccount ==
    /\ email_op = "none" /\ email_args.tool = "add_account"
    /\ add_account(email_args.provider, home, email_args.email, email_args.ctor, "ok")

EmailToolNext ==
    \/ CallEmailSend
    \/ CallEmailCountUnread
    \/ CallAddAccount

EmailToolSpec == EmailToolInit /\ [][EmailToolNext]_vars

(* ----------------------------- Web/main.py --------------------------- *)
\* msg.dict(): the fields of the message under their names
dict(msg) ==
    [type |-> msg.type, id |-> msg.id, content |-> msg.content,
     tool_calls |-> msg.tool_calls, tool_call_id |-> msg.tool_call_id]

serialize_history(msgs) == [i \in DOMAIN msgs |-> dict(msgs[i])]

\* human and ai entries become new messages that carry the content only;
\* entries of any other type are left out
deserialize_history(history_data) ==
    LET kept == SelectSeq(history_data, LAMBDA d : d.type \in {"human", "ai"})
    IN  [i \in DOMAIN kept |->
            IF kept[i].type = "human" THEN HumanMessage(kept[i].content)
            ELSE AIMessage(kept[i].content, <<>>)]

\* the content of the last AI message, "" without one
_last_ai_text(msgs) ==
    LET ais == {i \in DOMAIN msgs : msgs[i].type = "ai"}
    IN  IF ais = {} THEN <<>>
        ELSE msgs[CHOOSE i \in ais : \A j \in ais : j <= i].content.text

\* the title of the record: the stored one, else the first line of the first
\* human message cut at 40 characters, else "New Chat"
TitleOf(serialized_full) ==
    LET humans == {i \in DOMAIN serialized_full : serialized_full[i].type = "human"}
        first_human == serialized_full[CHOOSE i \in humans : \A j \in humans : i <= j]
        line == Strip(first_human.content.text)
    IN  IF existing.found /\ existing.title # <<>> THEN existing.title
        ELSE IF humans # {} THEN SubSeq(line, 1, IF Len(line) < 40 THEN Len(line) ELSE 40)
        ELSE <<"New Chat">>

\* mutant: the delta is cut at the length of the stored chat
ChatRespond_CutAtStored ==
    /\ web_pc = "running" /\ pc = "returned"
    /\ LET history_len_before == Len(existing.messages)
           updated_history == result
           history_delta_msgs ==
               SubSeq(updated_history, history_len_before + 1, Len(updated_history))
           serialized_full == serialize_history(updated_history)
           chat_id == IF existing.found THEN "given" ELSE "new"
       IN  /\ chat_record' = [id |-> chat_id, title |-> TitleOf(serialized_full),
                              messages |-> serialized_full]
           /\ response' = [response |-> _last_ai_text(updated_history),
                           history_delta |-> serialize_history(history_delta_msgs),
                           chat_id |-> chat_id]
    /\ web_pc' = "responded"
    /\ UNCHANGED <<existing, purevars, tracervars, tworunvars, emailvars, typed, inputs,
                   runvars, graphvars, execvars, counters>>

\* chat() after engine.run returned: the delta, the saved record, the response
ChatRespond ==
    /\ web_pc = "running" /\ pc = "returned"
    /\ LET history_len_before == Len(history)
           updated_history == result
           history_delta_msgs ==
               SubSeq(updated_history, history_len_before + 1, Len(updated_history))
           serialized_full == serialize_history(updated_history)
           chat_id == IF existing.found THEN "given" ELSE "new"
       IN  /\ chat_record' = [id |-> chat_id, title |-> TitleOf(serialized_full),
                              messages |-> serialized_full]
           /\ response' = [response |-> _last_ai_text(updated_history),
                           history_delta |-> serialize_history(history_delta_msgs),
                           chat_id |-> chat_id]
    /\ web_pc' = "responded"
    /\ UNCHANGED <<existing, purevars, tracervars, tworunvars, emailvars, typed, inputs,
                   runvars, graphvars, execvars, counters>>

\* engine.run raised: chat() lets it pass, nothing is saved or returned
ChatFails ==
    /\ web_pc = "running" /\ pc = "raised"
    /\ web_pc' = "failed"
    /\ UNCHANGED <<existing, response, chat_record, purevars, tracervars, tworunvars,
                   emailvars, typed, inputs, runvars, graphvars, execvars, counters>>

\* what _load_chat finds for the request: no chat (no chat_id, or an unknown
\* one), a new chat, chats saved by earlier requests
StoredChats ==
    { [found |-> FALSE, title |-> <<>>, messages |-> <<>>],
      [found |-> TRUE, title |-> <<"New Chat">>, messages |-> <<>>],
      [found |-> TRUE, title |-> <<"h","i">>,
       messages |-> serialize_history(
           <<[HumanMessage(Text(<<"h","i">>)) EXCEPT !.id = 101],
             [SystemMessage(Text(ROUTER_SYSTEM_PROMPT)) EXCEPT !.id = 102],
             [AIMessage(Text(<<"hello">>), <<>>) EXCEPT !.id = 103]>>)],
      [found |-> TRUE, title |-> <<>>,
       messages |-> serialize_history(
           <<[HumanMessage(Text(<<"h","i">>)) EXCEPT !.id = 101],
             [SystemMessage(Text(ROUTER_SYSTEM_PROMPT)) EXCEPT !.id = 102],
             [AIMessage(Text(<<"calling tools">>), <<[name |-> "sync_ok", id |-> 100]>>)
                 EXCEPT !.id = 103],
             [SystemMessage(Text(EXECUTOR_SYSTEM_PROMPT)) EXCEPT !.id = 104],
             [ToolMessage(Text(<<"{}">>), 100) EXCEPT !.id = 105],
             [AIMessage(Text(<<"reply">>), <<>>) EXCEPT !.id = 106]>>)] }

\* chat() up to the call of engine.run: the stored chat is loaded and
\* deserialized into the history passed to run()
ChatInit ==
    /\ existing \in StoredChats
    /\ history = deserialize_history(existing.messages) /\ caller_history = history
    /\ web_pc = "running" /\ response = NoResponse /\ chat_record = NoRecord
    /\ \/ /\ force_planner \in FlagValues /\ force_critic \in FlagValues
          /\ batch \in FlagBatches /\ rounds \in 0..MaxRounds
       \/ /\ force_planner = <<>> /\ force_critic = <<>>
          /\ batch \in Batches /\ rounds \in 1..MaxRounds
       \/ /\ force_planner = <<>> /\ force_critic = <<>>
          /\ batch \in SingleCallBatches /\ rounds = Forever
    /\ NoRunYet
    /\ NoPureCall /\ TracerOfEngine /\ NoTwoRuns /\ NoEmail

ChatNext ==
    \/ Next
    \/ ChatRespond
    \/ ChatFails

ChatSpec == ChatInit /\ [][ChatNext]_vars

(* ============================== claims ================================ *)
\* the messages the node that ran last added to the channel
Appended == SubSeq(state, before + 1, Len(state))
AppendedTools == SelectSeq(Appended, LAMBDA m : m.type = "tool")
Count(s, P(_)) == Cardinality({i \in DOMAIN s : P(s[i])})
Last(s) == s[Len(s)]

\* C1: the tool messages one Executor invocation appends are in the order of
\* the AI message's tool calls: the i-th one carries the id of the i-th call.
C1_CallOrderPreserved ==
    (pc = "graph" /\ ran = "executor") =>
        /\ Len(AppendedTools) = Len(calls)
        /\ \A i \in DOMAIN calls : AppendedTools[i].tool_call_id = calls[i].id

\* C2: every conversation run() returns holds exactly one system message,
\* and it is the first message.
C2_OneSystemMessageFirst ==
    pc = "returned" =>
        /\ Len(result) > 0
        /\ result[1].type = "system"
        /\ Count(result, LAMBDA m : m.type = "system") = 1

\* C3: for an AI message with N tool calls one Executor invocation appends
\* exactly N tool messages, and every call id is answered exactly once.
C3_OneResultPerCall ==
    (pc = "graph" /\ ran = "executor") =>
        /\ Len(AppendedTools) = Len(calls)
        /\ \A i \in DOMAIN calls :
               Count(AppendedTools, LAMBDA m : m.tool_call_id = calls[i].id) = 1
        /\ \A j \in DOMAIN AppendedTools :
               \E i \in DOMAIN calls : AppendedTools[j].tool_call_id = calls[i].id

\* C3 witness: an Executor invocation answered a batch that mixes an
\* asynchronous throwing call with an unknown or a synchronous call
C3_Witness ==
    /\ pc = "graph" /\ ran = "executor" /\ Len(calls) = MaxCalls
    /\ calls[1].name = "async_err"
    /\ calls[2].name \in {"missing", "sync_err"}

\* C4: out of the router the next node is the executor exactly when the last
\* message is an AI message with a tool call; otherwise the planner if the
\* force-planner flag is truthy, else the critic if the force-critic flag is
\* truthy, else the graph ends.
C4_RouterDecision ==
    (pc = "graph" /\ ran = "router") =>
        LET pending == Len(state) > 0 /\ Last(state).type = "ai"
                       /\ Len(Last(state).tool_calls) >= 1
        IN  /\ (node = "executor") <=> pending
            /\ ~pending /\ _truthy(force_planner) => node = "planner"
            /\ ~pending /\ ~_truthy(force_planner) /\ _truthy(force_critic) => node = "critic"
            /\ ~pending /\ ~_truthy(force_planner) /\ ~_truthy(force_critic) => node = END

\* C4 witness: both flags are truthy and the router's AI message has a tool
\* call, so the precedence of tool calls over the flags is exercised
C4_Witness ==
    /\ pc = "graph" /\ ran = "router" /\ node = "executor"
    /\ _truthy(force_planner) /\ _truthy(force_critic)

\* C5: when the operator resolves a breach by pause or stop, run() returns the
\* seed conversation plus exactly one synthetic AI message (naming the cap in
\* force for pause, saying the run was stopped for stop), and that step runs
\* no node, model call or tool call; nothing runs after it.
C5_PauseStopReturn ==
    [][ /\ action \in {"pause", "stop"} => FALSE
        /\ action' \in {"pause", "stop"} =>
            /\ pc' = "returned"
            /\ Len(result') = Len(messages) + 1
            /\ SubSeq(result', 1, Len(messages)) = messages
            /\ Last(result').type = "ai"
            /\ Len(Last(result').tool_calls) = 0
            /\ action' = "pause" =>
                   /\ Last(result').content.text = <<"Execution paused">>
                   /\ Last(result').content.cap = current_limit
            /\ action' = "stop" =>
                   Last(result').content.text = <<"Stopped: recursion limit reached, not continuing.">>
            /\ UNCHANGED <<state, node, step, counters, execvars>> ]_vars

\* C5 witness: a run paused at the cap a continue had raised
C5_Witness ==
    pc = "returned" /\ action = "pause" /\ current_limit = DefaultLimit + increment

\* the conversation without the ids the scheduler's channel gave its messages
NoIds(s) == [i \in DOMAIN s |-> [s[i] EXCEPT !.id = 0]]
Seed == history \o <<HumanMessage(Text(<<"user input">>))>>

\* C6: a continue resolution raises the cap by exactly 25, and the scheduler
\* is then invoked on the run's original seed conversation (history plus the
\* new human message), not on the conversation reached at the breach.
C6_ContinueRestartsFromSeed ==
    [][ /\ (pc = "prompt" /\ pc' # "prompt" /\ action' = "continue") =>
            /\ current_limit' = current_limit + 25
            /\ pc' = "loop"
            /\ messages' = messages
        /\ (pc = "loop" /\ pc' = "graph") =>
            /\ NoIds(state') = NoIds(Seed)
            /\ step' = 0
            /\ node' = "router" ]_vars

\* C6 witness: the scheduler runs again after a continue, at cap 50
C6_Witness ==
    /\ pc = "graph" /\ attempt = 2 /\ action = "continue" /\ step > 0
    /\ current_limit = DefaultLimit + increment

\* C7: the recursion-limit error never leaves run(): each breach is resolved
\* by exactly one of continue, pause and stop, and a paused or stopped run
\* returns normally with an AI message last.
C7_BreachAlwaysResolved ==
    [][ /\ error' # "GraphRecursionError"
        /\ (pc = "prompt" /\ pc' # "prompt") =>
            /\ action' \in {"continue", "pause", "stop"}
            /\ pc' \in {"loop", "returned"}
            /\ error' = "none"
            /\ (action' = "continue") <=> (pc' = "loop")
        /\ (pc' = "returned" /\ action' \in {"pause", "stop"}) =>
            Last(result').type = "ai" ]_vars

\* C7 witness: a second breach, after a continue, resolved by stop
C7_Witness ==
    pc = "returned" /\ action = "stop" /\ attempt = 2 /\ error = "none"

\* C8: a failed model call in a router, planner or critic node is caught by
\* nobody: run() raises that error, the failed call appends no message and
\* nothing runs afterwards.
C8_ModelFailureAborts ==
    [][ /\ pc # "raised"
        /\ error' = "InvocationError" =>
            /\ node \in {"router", "planner", "critic"}
            /\ pc' = "raised"
            /\ state' = state
            /\ result' = <<>> ]_vars

\* C8 witness: the model call fails in a router step that follows an
\* Executor invocation
C8_Witness ==
    pc = "raised" /\ error = "InvocationError" /\ ran = "executor" /\ node = "router"

\* what a call yields when it is executed on its own
OwnContent(call) ==
    IF call.name \notin DOMAIN Tools
    THEN Text(<<"Tool '", call.name, "' not found.">>)
    ELSE CASE Tools[call.name].does = "raise" -> Json([success |-> FALSE, error |-> <<"boom">>])
           [] Tools[call.name].does = "str"   -> Text(<<"X">>)
           [] Tools[call.name].does = "dict"  -> Json([success |-> TRUE, data |-> <<"X">>])
           [] Tools[call.name].does = "cyclic" ->
                  Json([success |-> FALSE, error |-> <<"Circular reference detected">>])

Logged(ev, id) == \E k \in DOMAIN xlog : xlog[k] = <<ev, id>>

\* C9: a tool that throws fails its own call only: when the dispatcher is
\* done, every registered call of the batch was invoked and ran to the end,
\* every call has the result it has on its own, and the Executor goes on to
\* return (no error is raised while it runs).
C9_ThrowIsolated ==
    /\ xpc = "return" =>
           \A i \in DOMAIN calls :
               /\ calls[i].name \in DOMAIN Tools =>
                      Logged("start", calls[i].id) /\ Logged("end", calls[i].id)
               /\ \E j \in DOMAIN results :
                      /\ results[j].tool_call_id = calls[i].id
                      /\ results[j].content = OwnContent(calls[i])
    /\ xpc # "idle" => (pc = "graph" /\ error = "none")

\* C9 witness: the dispatcher is done with a batch in which one call threw
\* and a later call succeeded
C9_Witness ==
    /\ xpc = "return" /\ Len(calls) = MaxCalls
    /\ calls[1].name \in {"sync_err", "async_err"}
    /\ calls[MaxCalls].name \in {"sync_ok", "async_ok"}

\* C10: a call to a tool that is not registered yields, for its call id, a
\* failed result (success = false) citing the tool name, in the shape of the
\* result of a tool that threw.
C10_UnknownToolFailedResult ==
    xpc = "return" =>
        \A i \in DOMAIN calls :
            calls[i].name \notin DOMAIN Tools =>
                \E j \in DOMAIN results :
                    /\ results[j].tool_call_id = calls[i].id
                    /\ results[j].content.fmt = "json"
                    /\ results[j].content.obj.success = FALSE
                    /\ \E k \in DOMAIN results[j].content.obj.error :
                           results[j].content.obj.error[k] = calls[i].name

\* a call that fails: its tool is unknown, throws, or returns an object that
\* cannot be serialized
Fails(call) ==
    \/ call.name \notin DOMAIN Tools
    \/ Tools[call.name].does \in {"raise", "cyclic"}

\* C11: nothing but a failed model call makes run() raise: whatever mix of
\* unknown, throwing and unserializable calls a batch holds, no error leaves
\* the Executor, every failed call is answered by a tool message in the
\* conversation, and the router is the next node.
C11_OnlyModelFailureAborts ==
    /\ pc = "raised" => error = "InvocationError"
    /\ xpc # "idle" => error = "none"
    /\ (pc = "graph" /\ ran = "executor") =>
           /\ node = "router"
           /\ \A i \in DOMAIN calls :
                  Fails(calls[i]) =>
                      \E j \in DOMAIN AppendedTools :
                          AppendedTools[j].tool_call_id = calls[i].id

\* C12: every asynchronous call of a batch is started before any of them
\* finishes or is waited for, and the Executor does not get to its return
\* before each of them has finished.
C12_FanOutThenBarrier ==
    /\ xpc = "gather" =>
           \A a \in DOMAIN async_calls : Logged("start", async_calls[a].id)
    /\ \A p \in DOMAIN xlog :
           (xlog[p][1] = "end" /\ \E a \in DOMAIN async_calls : async_calls[a].id = xlog[p][2]) =>
               \A a \in DOMAIN async_calls :
                   \E q \in 1..(p - 1) : xlog[q] = <<"start", async_calls[a].id>>
    /\ xpc = "return" =>
           /\ Len(outputs) = Len(async_calls)
           /\ \A a \in DOMAIN async_calls :
                  outputs[a] # Pending /\ Logged("end", async_calls[a].id)

\* C12 witness: two asynchronous calls were gathered and the second one
\* finished first
C12_Witness ==
    /\ xpc = "return" /\ Len(async_calls) = MaxCalls
    /\ Len(xlog) = 2 * MaxCalls
    /\ xlog[MaxCalls + 1] = <<"end", async_calls[MaxCalls].id>>

\* C13: after an execution of the executor, the planner or the critic the
\* next node is the router, never another node and never the end of the
\* graph; the graph ends only out of a router step.
C13_AllRoadsLeadToRouter ==
    [][ /\ (step' = step + 1 /\ node \in {"executor", "planner", "critic"}) =>
               (node' = "router" /\ ran' = node)
        /\ (node # END /\ node' = END) =>
               (node = "router" /\ ran' = "router" /\ step' = step + 1) ]_vars

\* C13 witness: the graph ended out of a router step that followed an
\* Executor invocation
C13_Witness ==
    pc = "graph" /\ node = END /\ ran = "router" /\ tool_invocations > 0

\* C14: one scheduler invocation under cap L (25 for the first one of a run)
\* executes at most L nodes; it ends at the end of the graph or, with L nodes
\* executed and the graph not at its end, by the recursion-limit error.
C14_CapBoundsInvocation ==
    /\ pc # "idle" =>
           /\ step + (IF xpc # "idle" THEN 1 ELSE 0) <= current_limit
           /\ attempt <= 1 => node_execs <= DefaultLimit
           /\ (attempt <= 1 /\ action # "continue") => current_limit = DefaultLimit
    /\ pc = "prompt" => (step = current_limit /\ node # END)
    /\ (pc = "returned" /\ action = "none") => (node = END /\ step <= current_limit)

\* C14 witness: the first invocation of a run was cut at 25 node executions
C14_Witness ==
    pc = "prompt" /\ attempt = 1 /\ step = DefaultLimit /\ node_execs = DefaultLimit

\* C15: within one run() call the cap starts at 25 and never decreases; the
\* only step that changes it is a continue resolution of a breach, and that
\* step makes it larger.
C15_CapNeverDecreases ==
    [][ /\ pc = "idle" => current_limit' = DefaultLimit
        /\ pc # "idle" =>
               /\ current_limit' >= current_limit
               /\ current_limit' # current_limit =>
                      (pc = "prompt" /\ action' = "continue")
               /\ (pc = "prompt" /\ pc' = "loop") =>
                      (action' = "continue" /\ current_limit' > current_limit) ]_vars

\* C15 witness: a second breach, met at the cap a continue had raised
C15_Witness ==
    /\ pc = "prompt" /\ attempt = 2 /\ action = "continue"
    /\ current_limit > DefaultLimit /\ step = current_limit

\* C16 (as stated): over a whole run() call the scheduler's step counter
\* never goes down, a continue resolution included, and every node execution
\* makes it larger.
C16_StepStrictlyIncreasing ==
    [][ pc # "idle" =>
            /\ step' >= step
            /\ (pc = "graph" /\ pc' = "graph" /\ state' # state) => step' > step ]_vars

\* C16 (amended): within one scheduler invocation every node execution
\* raises the step counter by exactly one and nothing else changes it; each
\* invocation, the one after a continue resolution included, starts the
\* counter again at zero.
C16_StepIncreasesPerInvocation ==
    [][ /\ (pc = "graph" /\ pc' = "graph") =>
               /\ step' \in {step, step + 1}
               /\ (step' = step + 1) <=> (state' # state)
        /\ (pc = "loop" /\ pc' = "graph") => step' = 0
        /\ step' < step => (pc = "loop" /\ pc' = "graph" /\ action = "continue") ]_vars

\* C16 witness: the retry after a continue starts at step zero although
\* the run has executed 25 nodes
C16_Witness ==
    pc = "graph" /\ attempt = 2 /\ step = 0 /\ node_execs = DefaultLimit

IsPrefix(s, t) == Len(s) <= Len(t) /\ SubSeq(t, 1, Len(s)) = s

\* the conversation a run() call holds at its present step: the seed before
\* an invocation, the scheduler's channel during one, the returned list after
Conversation ==
    CASE pc = "idle" -> <<>>
      [] pc = "loop" -> messages
      [] pc \in {"graph", "prompt", "raised"} -> state
      [] pc = "returned" -> result

\* C17 (as stated): at every step of a run() call, a continue, pause or stop
\* resolution included, the conversation of the step before is a prefix of
\* the conversation after it.
C17_AppendOnlyWithinRun ==
    [][ IsPrefix(NoIds(Conversation), NoIds(Conversation')) ]_vars

\* C17 (amended): within one scheduler invocation the conversation only
\* grows at its end, and only by the execution of a node; the end of the
\* graph returns it as it is.  A continue resolution goes back to the seed,
\* and pause and stop return the seed plus one message, without the messages
\* the nodes had appended.
C17_AppendOnlyPerInvocation ==
    [][ /\ pc = "graph" =>
               /\ IsPrefix(state, state')
               /\ state' # state => (step' = step + 1 /\ ran' = node)
               /\ pc' = "returned" => result' = state
        /\ (pc = "loop" /\ pc' = "graph") => NoIds(state') = NoIds(Seed)
        /\ pc = "prompt" =>
               /\ state' = state
               /\ pc' = "loop" => NoIds(Conversation') = NoIds(Seed)
               /\ pc' = "returned" =>
                      /\ Len(result') = Len(Seed) + 1
                      /\ NoIds(SubSeq(result', 1, Len(Seed))) = NoIds(Seed) ]_vars

\* C17 witness: in the retry after a continue a second node has appended
\* to the conversation that restarted from the seed
C17_Witness ==
    /\ pc = "graph" /\ attempt = 2 /\ step = 2
    /\ IsPrefix(NoIds(Seed), NoIds(state)) /\ Len(state) > Len(Seed) + 2

\* every tool message of s answers a tool call of an AI message before it
ToolIdsMatch(s) ==
    \A j \in DOMAIN s :
        s[j].type = "tool" =>
            \E i \in 1..(j - 1) :
                /\ s[i].type = "ai"
                /\ \E c \in DOMAIN s[i].tool_calls :
                       s[i].tool_calls[c].id = s[j].tool_call_id

\* C18: in every conversation a run reaches or returns, each tool message
\* carries the id of a tool call of an AI message that stands earlier in
\* that conversation.
C18_ToolMessagesAnswerEarlierCalls ==
    ToolIdsMatch(state) /\ ToolIdsMatch(result)

\* C18 witness: a returned conversation with tool messages for a batch of
\* an unknown, a throwing and an unserializable call
C18_Witness ==
    /\ pc = "returned" /\ action = "none"
    /\ Count(result, LAMBDA m : m.type = "tool") = MaxCalls
    /\ \E i \in DOMAIN batch : batch[i] = "missing"
    /\ \E i \in DOMAIN batch : batch[i] \in {"async_err", "async_cyc", "sync_err"}

AICount(s) == Count(s, LAMBDA m : m.type = "ai")

\* C19: every completed execution of the router, the planner or the critic
\* makes exactly one model call and adds exactly one AI message to the
\* conversation, and these nodes invoke no tool.
C19_OneModelCallOneAIMessage ==
    [][ /\ (node \in {"router", "planner", "critic"} /\ step' = step + 1) =>
               /\ llm_calls' = llm_calls + 1
               /\ AICount(state') = AICount(state) + 1
               /\ IsPrefix(state, state')
               /\ Last(state').type = "ai"
               /\ tool_invocations' = tool_invocations
               /\ UNCHANGED execvars
        /\ (node \in {"router", "planner", "critic"} /\ xpc = "idle") =>
               tool_invocations' = tool_invocations ]_vars

\* C19 witness: the router and the critic have run in turn, three or more
\* executions in all, in an invocation that began with a prior history
C19_Witness ==
    /\ pc = "graph" /\ ran = "critic" /\ Len(history) > 0
    /\ llm_calls = step /\ step >= 3 /\ AICount(state) = AICount(history) + step

\* the last message is an AI message that asks for tools
PendingCalls(s) ==
    Len(s) > 0 /\ Last(s).type = "ai" /\ Len(Last(s).tool_calls) > 0

\* C20: the executor never calls the model; called on a conversation whose
\* last message is not an AI message with tool calls, it runs no tool,
\* appends no tool message and returns, raising nothing.
C20_ExecutorWithoutPendingCalls ==
    [][ /\ llm_calls' = llm_calls
        /\ error' = "none" /\ pc' = "graph"
        /\ (node = "executor" /\ ~PendingCalls(state)) =>
               /\ tool_invocations' = 0
               /\ xpc' \in {"return", "idle"}
               /\ calls' = <<>> /\ results' = <<>>
               /\ xpc' = "idle" =>
                      /\ node' = "router" /\ ran' = "executor"
                      /\ IsPrefix(state, state')
                      /\ Count(state', LAMBDA m : m.type = "tool")
                             = Count(state, LAMBDA m : m.type = "tool") ]_vars

\* C20 witness: the executor has returned from a conversation that ended
\* with a plain AI reply after an answered batch, adding no tool message
C20_Witness ==
    /\ ran = "executor" /\ xpc = "idle" /\ node = "router"
    /\ before > 0 /\ state[before].type = "ai" /\ state[before].tool_calls = <<>>
    /\ Count(state, LAMBDA m : m.type = "tool") = Len(batch)
    /\ tool_invocations = 0 /\ llm_calls = 0

\* the prompt ensure_system falls back on when no override is passed
DefaultPrompt ==
    IF SYSTEM_PROMPT # None /\ SYSTEM_PROMPT # <<>> THEN SYSTEM_PROMPT
    ELSE <<"You are Aurora Agent.">>

\* C21: ensure_system returns a list that opens with a system message as it
\* is; to any other list it prepends one system message, holding the
\* override prompt if one is passed and the default prompt otherwise, and
\* keeps the messages of the list as they were and in their order; applied
\* to its own result it changes nothing.
C21_EnsureSystem ==
    [][ fn = "ensure_system" =>
            LET in == arg.messages
                o == arg.override_prompt
            IN  /\ (applied = 0 /\ Len(in) > 0 /\ in[1].type = "system") => ret' = in
                /\ (applied = 0 /\ ~(Len(in) > 0 /\ in[1].type = "system")) =>
                       /\ Len(ret') = Len(in) + 1
                       /\ ret'[1].type = "system"
                       /\ ret'[1].content =
                              Text(IF o # None /\ o # <<>> THEN o ELSE DefaultPrompt)
                       /\ SubSeq(ret', 2, Len(ret')) = in
                /\ applied = 1 => ret' = ret ]_vars

\* C21 witness: ensure_system was applied twice to a list that holds a
\* system message, but not in first place, with no override
C21_Witness ==
    /\ fn = "ensure_system" /\ applied = 2
    /\ Len(arg.messages) = MaxMessages /\ arg.override_prompt = None
    /\ arg.messages[1].type = "human" /\ arg.messages[2].type = "system"
    /\ Len(ret) = MaxMessages + 1

\* the model's first reply asks for no tool and no force flag is set
ScenarioA == rounds = 0 /\ ~_truthy(force_planner) /\ ~_truthy(force_critic)

\* C22: when the first AI reply of a run carries no tool call and no force
\* flag is set, the router's edge leads to the end of the graph: the whole
\* run is one router step with one model call, no tool is invoked, and the
\* returned conversation ends with that reply.
C22_ScenarioA ==
    ScenarioA =>
        /\ step <= 1 /\ llm_calls <= 1 /\ node_execs <= 1 /\ attempt <= 1
        /\ tool_invocations = 0
        /\ pc \notin {"prompt", "loop"} \/ attempt = 0
        /\ (pc = "graph" /\ step = 1) => (ran = "router" /\ node = END)
        /\ pc = "returned" =>
               /\ action = "none" /\ step = 1 /\ llm_calls = 1 /\ node_execs = 1
               /\ result = state
               /\ Last(result).type = "ai"
               /\ Last(result).tool_calls = <<>>
               /\ Last(result).content = PlainReply.content

\* C22 witness: such a run returned, with a prior history and a force flag
\* that is set to a value that is not truthy
C22_Witness ==
    /\ pc = "returned" /\ rounds = 0 /\ Len(history) > 0
    /\ force_planner = <<"0">> /\ force_critic = None
    /\ llm_calls = 1 /\ tool_invocations = 0

\* the model asks once for one registered tool that succeeds, then replies;
\* no force flag is set
ScenarioB ==
    /\ rounds = 1 /\ Len(batch) = 1
    /\ batch[1] \in DOMAIN Tools /\ Tools[batch[1]].does \in {"str", "dict"}
    /\ ~_truthy(force_planner) /\ ~_truthy(force_critic)

Types(s) == [i \in DOMAIN s |-> s[i].type]

\* C23: when the first AI reply carries one call of a registered tool that
\* succeeds and the second AI reply carries none, the run is router,
\* executor, router: the executor runs once and appends one tool message,
\* and run() returns history + human + ai (with the call) + tool result +
\* ai (final reply), in that order and nothing else.
C23_ScenarioB ==
    ScenarioB =>
        /\ pc = "raised" => error = "InvocationError"
        /\ (pc = "returned") =>
               /\ llm_calls = 2 /\ tool_invocations = 1 /\ node_execs = 3
               /\ Len(result) = Len(history) + 4
               /\ Types(result) = Types(history) \o <<"human", "ai", "tool", "ai">>
               /\ NoIds(SubSeq(result, 1, Len(Seed))) = NoIds(Seed)
               /\ result[Len(result) - 1].tool_call_id = result[Len(result) - 2].tool_calls[1].id
               /\ Last(result).tool_calls = <<>>

\* C24: no failure of the tracer reaches its caller: a record that cannot
\* be built is replaced by a minimal one, and no call of get_tracer or log
\* lets an exception escape, whatever the trace file is.
C24_TracerNeverRaises ==
    /\ trace_raised = "none"
    /\ \A i \in DOMAIN got : got[i] # Raised

\* C25: all get_tracer calls of a process return one and the same tracer,
\* bound to the file the first call chose; the logfile arguments of later
\* calls are ignored and the logger never has more than one file handler.
C25_OneTracerPerProcess ==
    /\ Len(handlers) <= 1
    /\ \A i \in DOMAIN got :
           /\ got[i] = got[1]
           /\ got[i].id = 1
           /\ got[i].logfile = PyOr(PyOr(requested[1], env_trace), DefaultTraceFile)
    /\ \A h \in DOMAIN handlers :
           handlers[h] = PyOr(PyOr(requested[1], env_trace), DefaultTraceFile)

\* the words the prompt understands, after trimming and lower-casing
ContinueWords == {<<>>, <<"y">>, <<"y","e","s">>}
PauseWords == {<<"/","p","a","u","s","e">>, <<"p","a","u","s","e">>}
StopWords == {<<"n">>, <<"n","o">>, <<"/","s","t","o","p">>, <<"s","t","o","p">>,
              <<"/","q","u","i","t">>, <<"q","u","i","t">>}
Word(line) == Lower(Strip(line))

\* C26: at the recursion prompt an empty line resolves to continue, a pause
\* word to pause and a stop word to stop; a line that is none of the words
\* the prompt understands resolves nothing and changes nothing of the run
\* (cap, seed, conversation, counters): the run stays at the prompt.
C26_PromptChoices ==
    [][ (pc = "prompt" /\ typed' \notin {EOF, INT}) =>
            /\ Word(typed') = <<>> => (action' = "continue" /\ pc' = "loop")
            /\ Word(typed') \in PauseWords => (action' = "pause" /\ pc' = "returned")
            /\ Word(typed') \in StopWords => (action' = "stop" /\ pc' = "returned")
            /\ Word(typed') \notin ContinueWords \cup PauseWords \cup StopWords =>
                   /\ pc' = "prompt"
                   /\ UNCHANGED <<action, result, error, current_limit, messages, attempt,
                                  graphvars, execvars, counters, inputs>> ]_vars

\* C26 witness: at the second breach of a run, under the raised cap, a line
\* that is not understood has left the run at the prompt
C26_Witness ==
    /\ pc = "prompt" /\ typed = <<"c","o","n","t","i","n","u","e">>
    /\ attempt = 2 /\ action = "continue" /\ current_limit = DefaultLimit + increment


\* what json has a form for: null, booleans, numbers, strings, arrays and
\* objects with string keys
RECURSIVE JsonRepresentable(_)
JsonRepresentable(p) ==
    \/ p.t \in {"none", "bool", "int", "str"}
    \/ p.t = "list" /\ \A i \in DOMAIN p.v : JsonRepresentable(p.v[i])
    \/ p.t = "dict" /\ \A i \in DOMAIN p.v :
           p.v[i][1].t = "str" /\ JsonRepresentable(p.v[i][2])

\* C27: a tool output that is a string is the tool message's content as it
\* is; any other output json has a form for is what json.loads reads back
\* from the content.
C27_SerializeRoundTrip ==
    (fn = "_serialize_output" /\ applied >= 1) =>
        /\ arg.output.t = "str" => ret.text = arg.output.v
        /\ (applied = 2 /\ arg.output.t # "str" /\ JsonRepresentable(arg.output)) =>
               ret.parsed.ok /\ ret.parsed.val = arg.output

\* a dict that holds a text with a quote in it has been serialized and read
\* back as it was
C27_Witness ==
    /\ fn = "_serialize_output" /\ applied = 2
    /\ arg.output = PyDict(<< <<PyStr(<<"k">>), PyStr(<<"\"">>)>>,
                              <<PyStr(<<"1">>), PyList(<<PyNone>>)>> >>)
    /\ ret.text = <<"{", "\"", "k", "\"", ":", " ", "\"", "\\", "\"", "\"", ",", " ",
                    "\"", "1", "\"", ":", " ", "[", "n", "u", "l", "l", "]", "}">>
    /\ ret.parsed.ok /\ ret.parsed.val = arg.output

\* C28: two run() calls on one engine, interleaved in any way: a step of one
\* call leaves the other call's conversation, step count and cap as they
\* were, and each call has the seed, the cap and the step bound it has when
\* it runs alone; a continue in one call leaves the other call's cap alone.
C28_RunsIndependent ==
    [][ /\ \A i, j \in Calls :
              (i # j /\ runs'[i] # runs[i]) => runs'[j] = runs[j]
        /\ \A i \in Calls :
              runs'[i].pc # "idle" =>
                 /\ runs'[i].messages = CallSeed(i)
                 /\ runs'[i].step <= runs'[i].current_limit
                 /\ runs'[i].current_limit =
                        DefaultLimit + increment * (IF runs'[i].pc = "loop"
                                                    THEN runs'[i].attempt
                                                    ELSE runs'[i].attempt - 1)
    ]_vars

\* the first call has continued once and is in its retry under cap 50 while
\* the second call, started in between, is at its breach under cap 25
C28_Witness ==
    /\ runs[1].pc = "graph" /\ runs[1].attempt = 2 /\ runs[1].step = 30
    /\ runs[1].current_limit = DefaultLimit + increment
    /\ runs[2].pc = "prompt" /\ runs[2].attempt = 1
    /\ runs[2].current_limit = DefaultLimit
    /\ runs[2].state = CallSeed(2) \o [k \in 1..DefaultLimit |-> PlainReply]

ToolMessages(s) == Count(s, LAMBDA m : m.type = "tool")

RECURSIVE ExecutorRuns(_)
\* executor runs up to the breach of invocation n when the model asks for a
\* tool in every reply: every second node execution under each cap
ExecutorRuns(n) ==
    IF n = 0 THEN 0
    ELSE ExecutorRuns(n - 1) + ((DefaultLimit + (n - 1) * increment) \div 2)

PromptOf(n) ==
    CASE n = "router" -> ROUTER_SYSTEM_PROMPT
      [] n = "planner" -> PLANNER_SYSTEM_PROMPT
      [] n = "executor" -> EXECUTOR_SYSTEM_PROMPT
      [] n = "critic" -> CRITIC_SYSTEM_PROMPT

\* the message list the node that ran last worked on
ViewOfLast == ensure_system(SubSeq(state, 1, before), PromptOf(ran))

\* the message list the first node of the invocation, the router, worked on
ViewOfFirst == ensure_system(SubSeq(state, 1, Len(messages)), ROUTER_SYSTEM_PROMPT)

\* C30: every node of a run works on a conversation that opens with the same
\* system message: the one the history opens with or else the one the first
\* node put there; the overrides of the later nodes have no effect.
C30_SystemPromptFixed ==
    (pc = "graph" /\ ran # "none" /\ xpc = "idle") =>
        /\ ViewOfLast[1].type = "system"
        /\ ViewOfLast[1].content = ViewOfFirst[1].content

\* C31: after a register or unregister whose write succeeded, as all writes
\* before it did, the accounts file lists the accounts of the registry, one
\* entry per name, and a new manager over the file holds the same accounts.
C31_PersistedAccountsRestore ==
    (writes_ok /\ email_op \in {"register", "unregister"}) =>
        /\ accounts_file.ok
        /\ accounts_file.entries = _providers
        /\ \A i, j \in DOMAIN _providers :
               _providers[i].name = _providers[j].name => i = j
        /\ _load_persisted_accounts(accounts_file) = _providers

\* a registered account has this name, or this address in any case
KnownAccount(chars) ==
    \E i \in DOMAIN _providers :
        _providers[i].name = chars \/ Lower(_providers[i].email) = Lower(chars)

\* no account is given: the argument is left out or is the empty string
NotGiven(account) == account.t = "none" \/ account = StrAccount(<<>>)

\* the call names a registered account, or names none while one is registered
AccountFound(account) ==
    CASE NotGiven(account) -> Len(_providers) = 1
      [] account.t = "str" -> KnownAccount(account.v)
      [] account.t = "dict" ->
             IF PyOr(PyOr(account.v[1], account.v[2]), None) # None
             THEN KnownAccount(PyOr(account.v[1], account.v[2]))
             ELSE ~AccountTruthy(account) /\ Len(_providers) = 1

AttachmentsFine(raw) ==
    raw = None \/ \A i \in DOMAIN raw : raw[i] \in {"path", "inline"}

\* C32: an email tool gives back a record and raises nothing: success true
\* with data, or success false with an error text; it fails exactly when the
\* account is unknown or cannot be chosen, an attachment is missing or
\* malformed, or the provider raises; with no account given it succeeds only
\* when exactly one account is registered.
C32_EmailToolsReturnRecords ==
    email_op # "none" =>
        /\ email_ret.raised = "none"
        /\ email_ret.success =>
               {"success", "data"} \subseteq email_ret.keys /\ "error" \notin email_ret.keys
        /\ ~email_ret.success =>
               email_ret.keys = {"success", "error"} /\ email_ret.error.prefix # ""
        /\ email_args.tool = "email_send" =>
               (email_ret.success <=>
                    /\ AccountFound(email_args.account)
                    /\ AttachmentsFine(email_args.attachments)
                    /\ email_args.prov = "ok")
        /\ email_args.tool = "email_count_unread" =>
               (email_ret.success <=>
                    AccountFound(email_args.account) /\ email_args.prov = "ok")
        /\ (email_args.tool # "add_account" /\ NotGiven(email_args.account)) =>
               /\ email_ret.success => Len(_providers) = 1
               /\ Len(_providers) # 1 =>
                      ~email_ret.success /\ email_ret.error.exc = "ValueError"
        /\ email_args.tool = "add_account" =>
               (email_ret.success <=>
                    Lower(email_args.provider) \in PROVIDERS /\ email_args.ctor = "ok")

\* C32 witness: email_send without an account while two are registered, and
\* with a missing attachment file: the record says the account is required
C32_Witness ==
    /\ email_op = "email_send" /\ email_args.account = NoAccount
    /\ Len(_providers) = 2
    /\ email_args.attachments = <<"missing_path">>
    /\ email_args.prov = "ok"
    /\ email_ret = _err("send failed", "ValueError")

\* C33: what run() returns on pause or stop is the seed conversation, the
\* history and the new human message, and then the one synthetic AI message;
\* it holds no AI or tool message of the scheduler, whose conversation at the
\* breach is longer by one message or more per node execution.
C33_PauseStopDropsSchedulerOutput ==
    (pc = "returned" /\ action \in {"pause", "stop"}) =>
        /\ Len(result) = Len(history) + 2
        /\ NoIds(SubSeq(result, 1, Len(history) + 1)) = Seed
        /\ Last(result).id = 0
        /\ Last(result).content.text \in
               {<<"Execution paused">>, <<"Stopped: recursion limit reached, not continuing.">>}
        /\ AICount(result) = AICount(history) + 1
        /\ ToolMessages(result) = ToolMessages(history)
        /\ Len(state) >= Len(Seed) + current_limit
        /\ AICount(state) > AICount(history)

\* C33 witness: a pause after one continue, at a breach where the scheduler's
\* conversation held tool messages
C33_Witness ==
    /\ pc = "returned" /\ action = "pause" /\ attempt = 2
    /\ ToolMessages(state) > ToolMessages(history)
    /\ ToolMessages(result) = ToolMessages(history)
    /\ Len(result) = Len(history) + 2

\* C34: with a truthy force-planner or force-critic flag the router's edge
\* never leads to the end of the graph; an invocation in which no model call
\* fails ends in no other way than at the recursion limit, and run() returns
\* only by a pause or a stop.
C34_ForceFlagsNeverTerminal ==
    (_truthy(force_planner) \/ _truthy(force_critic)) =>
        /\ pc = "graph" => node # END
        /\ pc = "returned" => action \in {"pause", "stop"}
        /\ pc = "raised" => error = "InvocationError"

\* the dispatcher invokes the call's tool inline
IsSyncCall(call) ==
    call.name \in DOMAIN tools_map /\ ~IsAsyncTool(tools_map[call.name])

IsAsyncCall(call) ==
    call.name \in DOMAIN tools_map /\ IsAsyncTool(tools_map[call.name])

\* C35: in one executor invocation every synchronous call of the batch has
\* started and ended before the first asynchronous call starts, wherever the
\* calls stand in the list; a synchronous call ends before anything else
\* starts, and synchronous calls start in call order.
C35_SyncBeforeAsync ==
    /\ \A p \in DOMAIN xlog, a \in DOMAIN calls :
           (IsAsyncCall(calls[a]) /\ xlog[p] = <<"start", calls[a].id>>) =>
               \A c \in DOMAIN calls :
                   IsSyncCall(calls[c]) =>
                       \E q \in 1..(p - 1) :
                           /\ q + 1 < p
                           /\ xlog[q] = <<"start", calls[c].id>>
                           /\ xlog[q + 1] = <<"end", calls[c].id>>
    /\ \A p \in DOMAIN xlog, c \in DOMAIN calls :
           (IsSyncCall(calls[c]) /\ xlog[p] = <<"start", calls[c].id>>) =>
               /\ p < Len(xlog) /\ xlog[p + 1] = <<"end", calls[c].id>>
               /\ \A d \in 1..(c - 1) :
                      IsSyncCall(calls[d]) =>
                          \E q \in 1..(p - 1) : xlog[q] = <<"end", calls[d].id>>

\* C35 witness: the asynchronous call stands first in the batch and the
\* synchronous call second; the synchronous one ran first
C35_Witness ==
    /\ xpc = "gather" /\ Len(calls) = 2
    /\ IsAsyncCall(calls[1]) /\ IsSyncCall(calls[2])
    /\ xlog = <<<<"start", calls[2].id>>, <<"end", calls[2].id>>, <<"start", calls[1].id>>>>

\* C36: while the scheduler is at the executor the last message of the
\* channel is an AI message with at least one tool call; an executor
\* execution that returns has appended at least one tool message and leaves
\* a tool message last; the router step that follows finds it there and
\* makes one model call.
C36_ExecutorAlwaysHasCalls ==
    /\ [](/\ (pc = "graph" /\ node = "executor") => has_tool_calls(state)
          /\ (pc = "graph" /\ node = "router" /\ ran = "executor") =>
                 Last(state).type = "tool")
    /\ [][ /\ (pc = "graph" /\ node = "executor" /\ node' # "executor") =>
                  /\ ToolMessages(state') > ToolMessages(state)
                  /\ Last(state').type = "tool"
           /\ (node = "router" /\ ran = "executor" /\ node_execs' # node_execs) =>
                  llm_calls' = llm_calls + 1 ]_vars

\* C36 witness: the executor ran, the router step after it made its model
\* call, and the scheduler is at the executor again
C36_Witness ==
    /\ pc = "graph" /\ node = "executor" /\ xpc = "idle" /\ ran = "router"
    /\ ToolMessages(state) > 0 /\ llm_calls = 2
    /\ has_tool_calls(state)

\* C37: end of input or a keyboard interrupt at the prompt resolves the
\* breach as stop: run() returns the seed conversation and the stop message,
\* the cap keeps its value, nothing is raised, and after the return no node
\* is executed and the scheduler is not invoked.
C37_ClosedChannelStops ==
    [][ /\ (pc = "prompt" /\ typed' \in {EOF, INT}) =>
               /\ action' = "stop"
               /\ pc' = "returned"
               /\ result' = messages \o <<stop_msg>>
               /\ current_limit' = current_limit
               /\ error' = error /\ error = "none"
               /\ attempt' = attempt
               /\ node_execs' = node_execs
        /\ (pc = "returned" /\ action = "stop" /\ typed \in {EOF, INT}) =>
               /\ pc' = "returned"
               /\ current_limit' = current_limit
               /\ node_execs' = node_execs /\ step' = step ]_vars

\* C37 witness: the channel was interrupted at the second breach, after one
\* continue
C37_Witness ==
    /\ pc = "returned" /\ action = "stop" /\ typed = INT
    /\ attempt = 2 /\ current_limit = DefaultLimit + increment
    /\ error = "none"

\* C38: at every point of run(), and after it returned or raised on whatever
\* path, the caller's history list has the length it was passed with and
\* holds the same messages in the same order: each is the message that was
\* passed, with its type, content and tool calls, and with its id unless it
\* had none, which the scheduler's reducer then set on the object.
C38_HistoryUntouched ==
    /\ Len(caller_history) = Len(history)
    /\ NoIds(caller_history) = NoIds(history)
    /\ \A i \in DOMAIN history :
           history[i].id # 0 => caller_history[i].id = history[i].id

\* C38 witness: a run on a prior history of three messages was paused at its
\* second breach
C38_Witness ==
    /\ pc = "returned" /\ action = "pause" /\ attempt = 2
    /\ Len(history) = 3 /\ Len(result) = 5
    /\ caller_history = SubSeq(result, 1, 3)

\* the messages of the conversation run() returned that the caller's history
\* list does not hold, in their order
AddedByRun == SelectSeq(result, LAMBDA m : \A i \in DOMAIN caller_history : caller_history[i] # m)

\* C39: the history delta of a /chat response is the serialized list of the
\* messages the run added to the loaded history, the new human message
\* first: no message of the loaded history is in it and no added message is
\* missing, with or without system messages added during the run.
C39_DeltaIsWhatRunAdded ==
    web_pc = "responded" =>
        /\ response.history_delta = serialize_history(AddedByRun)
        /\ Len(response.history_delta) = Len(result) - Len(history)
        /\ response.history_delta[1].type = "human"
        /\ response.history_delta[1].content = Text(<<"user input">>)
        /\ \A k \in DOMAIN response.history_delta, i \in DOMAIN caller_history :
               response.history_delta[k] # dict(caller_history[i])

\* C39 witness: the request named a stored chat with system and tool
\* messages in it, the run made a tool call and added two system messages
C39_Witness ==
    /\ web_pc = "responded" /\ action = "none"
    /\ Len(existing.messages) = 6 /\ Len(history) = 3
    /\ ToolMessages(result) = 1
    /\ Count(response.history_delta, LAMBDA d : d.type = "system") >= 2
====
